---- MODULE Spec2Model ----
(***************************************************************************)
(* Model of the YouTube download queue of modern_app.py                    *)
(* (ModernAudioConverter) together with the pure helpers of                *)
(* youtube_downloader.py it calls.                                         *)
(*                                                                         *)
(* Strings are TLA+ strings, read as sequences of characters with Len,     *)
(* SubSeq and \o.  A character is a string of length one.                  *)
(*                                                                         *)
(* A handler runs as one step.  A question a handler asks (askyesno) is    *)
(* answered within the step, the answer being an input of the handler.     *)
(***************************************************************************)
EXTENDS Bags, FiniteSets, Integers, Sequences, TLC

(***************************************************************************)
(* Bounds of the model.                                                    *)
(***************************************************************************)
\* Requests accepted by add_to_youtube_queue that the model follows at once:
\* queue items plus metadata lookups still on their way to the queue.
MaxQueue == 2
\* Files the destination folder can hold; a fetch that would exceed it fails
\* (the export raises), as on a full disk.
MaxFiles == 2

(***************************************************************************)
(* String helpers (Python str methods used by the source).                 *)
(***************************************************************************)
CharAt(s, i) == SubSeq(s, i, i)

DropFirst(s, n) == SubSeq(s, n + 1, Len(s))

StartsWith(s, p) == Len(s) >= Len(p) /\ SubSeq(s, 1, Len(p)) = p

\* Characters str.strip() and the regex class \s treat as whitespace.
Whitespace == {" ", "\t", "\n", "\r"}

RECURSIVE LStrip(_, _)
LStrip(s, chars) ==
    IF s # "" /\ CharAt(s, 1) \in chars THEN LStrip(DropFirst(s, 1), chars) ELSE s

RECURSIVE RStrip(_, _)
RStrip(s, chars) ==
    IF s # "" /\ CharAt(s, Len(s)) \in chars
    THEN RStrip(SubSeq(s, 1, Len(s) - 1), chars)
    ELSE s

\* str.strip(chars)
StripChars(s, chars) == RStrip(LStrip(s, chars), chars)

\* str.strip()
Strip(s) == StripChars(s, Whitespace)

\* str.replace(c, r) for every character c of a set (the string is taken by
\* halves, which keeps the evaluation shallow for long strings)
RECURSIVE ReplaceChars(_, _, _)
ReplaceChars(s, chars, r) ==
    IF s = "" THEN ""
    ELSE IF Len(s) = 1 THEN (IF s \in chars THEN r ELSE s)
    ELSE LET half == Len(s) \div 2
         IN  ReplaceChars(SubSeq(s, 1, half), chars, r)
             \o ReplaceChars(DropFirst(s, half), chars, r)

\* re.sub(r'\s+', ' ', s), by halves: a run of whitespace cut in two gives
\* one space on each side, of which one is kept
RECURSIVE CollapseWhitespace(_)
CollapseWhitespace(s) ==
    IF s = "" THEN ""
    ELSE IF Len(s) = 1 THEN (IF s \in Whitespace THEN " " ELSE s)
    ELSE LET half == Len(s) \div 2
             left == CollapseWhitespace(SubSeq(s, 1, half))
             right == CollapseWhitespace(DropFirst(s, half))
         IN  IF CharAt(left, Len(left)) = " " /\ CharAt(right, 1) = " "
             THEN left \o DropFirst(right, 1)
             ELSE left \o right

\* s[:n]
Truncate(s, n) == IF Len(s) > n THEN SubSeq(s, 1, n) ELSE s

(***************************************************************************)
(* youtube_downloader.validate_youtube_url                                 *)
(***************************************************************************)
\* The character class [a-zA-Z0-9_-]
IdChars ==
    { "a", "b", "c", "d", "e", "f", "g", "h", "i", "j", "k", "l", "m",
      "n", "o", "p", "q", "r", "s", "t", "u", "v", "w", "x", "y", "z",
      "A", "B", "C", "D", "E", "F", "G", "H", "I", "J", "K", "L", "M",
      "N", "O", "P", "Q", "R", "S", "T", "U", "V", "W", "X", "Y", "Z",
      "0", "1", "2", "3", "4", "5", "6", "7", "8", "9", "_", "-" }

\* {11}: the length of the video id the patterns ask for
VideoIdLen == 11

\* The optional groups (?:https?://)? and (?:www\.)?
SchemePrefixes == { "", "http://", "https://" }
WwwPrefixes == { "", "www." }

\* The fixed part of each of the four patterns
youtube_patterns ==
    { "youtube.com/watch?v=", "youtu.be/", "youtube.com/embed/", "youtube.com/v/" }

\* re.match(pattern, s): the pattern matches a prefix of s
MatchesPattern(s, literal) ==
    \E scheme \in SchemePrefixes, www \in WwwPrefixes :
        LET head == scheme \o www \o literal
        IN  /\ StartsWith(s, head)
            /\ Len(s) >= Len(head) + VideoIdLen
            /\ \A i \in 1..VideoIdLen : CharAt(s, Len(head) + i) \in IdChars

validate_youtube_url(url) ==
    /\ url # ""
    /\ \E literal \in youtube_patterns : MatchesPattern(Strip(url), literal)

(***************************************************************************)
(* The two filename sanitizers.                                            *)
(***************************************************************************)
invalid_chars == { "<", ">", ":", "\"", "/", "\\", "|", "?", "*" }

\* filename[:200]
MaxFilenameLen == 200

\* ModernAudioConverter.sanitize_filename
app_sanitize_filename(filename) ==
    Truncate(StripChars(ReplaceChars(filename, invalid_chars, "_"), {" ", "."}),
             MaxFilenameLen)

\* youtube_downloader.sanitize_filename
sanitize_filename(filename) ==
    Truncate(StripChars(CollapseWhitespace(Strip(
                 ReplaceChars(filename, invalid_chars, "_"))), {"."}),
             MaxFilenameLen)

\* os.path.join(folder, name) for a relative name
PathJoin(folder, name) ==
    IF folder = "" THEN name
    ELSE IF CharAt(folder, Len(folder)) = "/" THEN folder \o name
    ELSE folder \o "/" \o name

\* 'x' in s
Contains(s, sub) ==
    \E i \in 0..(Len(s) - Len(sub)) : SubSeq(s, i + 1, i + Len(sub)) = sub

(***************************************************************************)
(* The world outside the program.  The texts of the URL entry              *)
(* (self.youtube_url) and of the folder entry (self.youtube_dest) are the  *)
(* user's to change at any moment and are read only by handlers the user   *)
(* triggers, so they are inputs of those handlers.                         *)
(***************************************************************************)
\* What the user can type into the URL entry.
UrlInputs ==
    { "", "https://youtu.be/short", "https://youtu.be/dQw4w9WgXcQ",
      " https://youtu.be/dQw4w9WgXcQ", "youtube.com/embed/aaaaaaaaaaa" }

\* What the user can put into the download-folder entry.
DestInputs == { "", " ", "d" }

\* yt.title: the title the platform reports for a video.
VideoTitle(url) == IF url = "https://youtu.be/dQw4w9WgXcQ" THEN "a:b" ELSE "a_b"

(***************************************************************************)
(* Status column of the queue's tree view.  The check mark and the cross   *)
(* of the source's status texts are written [ok] and [x].                  *)
(***************************************************************************)
OkMark == "[ok]"
ErrMark == "[x]"
StatusPending == "Beklemede"
StatusDownloading == "Indiriliyor..."
StatusCompleted == "[ok] Tamamlandi"
StatusFailed == "[x] Hata"
StatusAlreadyExists == "[ok] Zaten Mevcut"

(***************************************************************************)
(* State.                                                                  *)
(***************************************************************************)
VARIABLES
    youtube_queue,          \* self.youtube_queue: list of queue items
    youtube_tree,           \* rows of self.youtube_tree: status and progress
    downloading,            \* self.downloading
    current_youtube_index,  \* self.current_youtube_index (0-based)
    info_threads,           \* running fetch_and_add_video threads (a bag)
    fetch_threads,          \* running download_youtube_queue_item threads (a bag)
    after_queue,            \* callbacks posted with root.after(0, ...), in order
    download_next_timers,   \* pending root.after(500 / 1000, download_next...)
    files,                  \* paths that exist on disk
    last_warning,           \* text of the latest messagebox.showwarning
    queue_complete_calls,   \* youtube_queue_complete calls of the latest run
    files_data,             \* the list find_audio_files returned
    call,                   \* the library function called directly, its
                            \* arguments, locals, position and return value
    progress_calls,         \* calls made to the progress_callback supplied
    temp_dirs,              \* temporary directories that exist
    converting,             \* self.converting
    convert_btn,            \* state of self.convert_btn
    scan_btn,               \* state of self.scan_btn
    convert_threads,        \* running convert_files threads (a bag)
    file_tree               \* rows of self.file_tree: name, status, progress

\* The variables of the application's queue, the disk left out
app_vars ==
    << youtube_queue, youtube_tree, downloading,
       current_youtube_index, info_threads, fetch_threads, after_queue,
       download_next_timers, last_warning, queue_complete_calls >>

\* The variables of a direct call of audio_converter or youtube_downloader
lib_vars == << files_data, call, progress_calls, temp_dirs >>

\* The variables of the batch tab
batch_tab_vars == << converting, convert_btn, scan_btn, convert_threads, file_tree >>

vars ==
    << youtube_queue, youtube_tree, downloading,
       current_youtube_index, info_threads, fetch_threads, after_queue,
       download_next_timers, files, last_warning, queue_complete_calls,
       files_data, call, progress_calls, temp_dirs,
       converting, convert_btn, scan_btn, convert_threads, file_tree >>

\* setup_variables and create_batch_tab: the batch tab at start
BatchTabInit ==
    /\ converting = FALSE
    /\ convert_btn = "disabled"
    /\ scan_btn = "normal"
    /\ convert_threads = EmptyBag
    /\ file_tree = << >>

\* No library function has been called directly
NoCall == [fn |-> "none", pc |-> "returned"]

\* setup_variables, and an empty destination folder
Init ==
    /\ youtube_queue = << >>
    /\ youtube_tree = << >>
    /\ downloading = FALSE
    /\ current_youtube_index = 0
    /\ info_threads = EmptyBag
    /\ fetch_threads = EmptyBag
    /\ after_queue = << >>
    /\ download_next_timers = 0
    /\ files = {}
    /\ last_warning = ""
    /\ queue_complete_calls = << >>
    /\ files_data = << >>
    /\ call = NoCall
    /\ progress_calls = << >>
    /\ temp_dirs = {}
    /\ BatchTabInit

\* Number of posted callbacks for one handler
PostedCount(handler) ==
    Cardinality({ i \in 1..Len(after_queue) : after_queue[i].handler = handler })

(***************************************************************************)
(* update_youtube_queue_buttons.  Every handler that changes the queue or  *)
(* the downloading flag ends by calling it, and a selection change calls   *)
(* it too, so a button's state is this function of the current state.      *)
(***************************************************************************)
has_items == Len(youtube_queue) > 0

clear_queue_btn == has_items /\ ~downloading

\* The remove button left enabled during a run
remove_selected_btn_during_run == TRUE

\* has_selection is the user's doing: a row is selected before the click
remove_selected_btn == ~downloading

\* The start button left enabled during a run
download_queue_btn_during_run == has_items

download_queue_btn == has_items /\ ~downloading

(***************************************************************************)
(* Enqueue: add_to_youtube_queue, fetch_and_add_video, add_video_to_queue  *)
(***************************************************************************)
\* The duplicate check left out
url_in_queue_never(url) == FALSE

\* for item in self.youtube_queue: if item['url'] == url
url_in_queue(url) == \E i \in 1..Len(youtube_queue) : youtube_queue[i].url = url

\* Requests on their way: queue items, lookups running, lookups posted
RequestsInModel ==
    Len(youtube_queue) + BagCardinality(info_threads)
        + PostedCount("add_video_to_queue")

\* url = self.youtube_url.get().strip() and validate_youtube_url(url),
\* dest = self.youtube_dest.get().strip(): tabulated over the texts the user
\* can type
typed_url ==
    [typed \in UrlInputs |->
        [url |-> Strip(typed), valid |-> validate_youtube_url(Strip(typed))]]

typed_dest == [folder \in DestInputs |-> Strip(folder)]

\* The texts of the warnings
WarnInvalidUrl == "Lutfen gecerli bir YouTube URL'si girin."
WarnNoDest == "Lutfen indirme klasoru secin."
WarnInQueue == "Bu video zaten kuyrukta!"

\* add_to_youtube_queue, by the button or by <Return> in the URL entry
\* (the binding does not look at the button's state)
add_to_youtube_queue(typed, folder) ==
    LET url == typed_url[typed].url
        dest == typed_dest[folder]
    IN  /\ IF ~typed_url[typed].valid
           THEN /\ last_warning' = WarnInvalidUrl
                /\ UNCHANGED info_threads
           ELSE IF dest = ""
           THEN /\ last_warning' = WarnNoDest
                /\ UNCHANGED info_threads
           ELSE IF url_in_queue(url)
           THEN /\ last_warning' = WarnInQueue
                /\ UNCHANGED info_threads
           ELSE /\ RequestsInModel < MaxQueue
                /\ info_threads' =
                       info_threads (+) SetToBag({[url |-> url, dest |-> dest]})
                /\ UNCHANGED last_warning
        /\ UNCHANGED << youtube_queue, youtube_tree, downloading,
                        current_youtube_index, fetch_threads, after_queue,
                        download_next_timers, files, queue_complete_calls >>
        /\ UNCHANGED << lib_vars, batch_tab_vars >>

\* fetch_and_add_video: the worker ends and posts add_video_to_queue.
\* get_youtube_info answers (True, info, None) or (False, None, error).
fetch_and_add_video(thread, success) ==
    /\ BagIn(thread, info_threads)
    /\ info_threads' = info_threads (-) SetToBag({thread})
    /\ after_queue' =
           Append(after_queue,
                  [handler |-> "add_video_to_queue", success |-> success,
                   title |-> IF success THEN VideoTitle(thread.url) ELSE "",
                   url |-> thread.url, dest |-> thread.dest])
    /\ UNCHANGED << youtube_queue, youtube_tree, downloading,
                    current_youtube_index, fetch_threads, download_next_timers,
                    files, queue_complete_calls, last_warning >>
    /\ UNCHANGED << lib_vars, batch_tab_vars >>

\* queue_item = {...}
new_queue_item(url, dest, title) ==
    LET potential_filename == app_sanitize_filename(title) \o ".mp3"
    IN  [url |-> url, dest |-> dest, title |-> title,
         status |-> StatusPending, progress |-> "0%",
         filename |-> potential_filename,
         full_path |-> PathJoin(dest, potential_filename)]

\* The item put in front of the queue
enqueue_item_front(queue, item) == << item >> \o queue

\* self.youtube_queue.append(queue_item)
enqueue_item(queue, item) == Append(queue, item)

\* add_video_to_queue, run by the main loop; response is the user's answer to
\* the "file already exists" question, asked only when the file exists
add_video_to_queue(response) ==
    /\ after_queue # << >>
    /\ Head(after_queue).handler = "add_video_to_queue"
    /\ after_queue' = Tail(after_queue)
    /\ LET cb == Head(after_queue)
           item == new_queue_item(cb.url, cb.dest, cb.title)
       IN  IF cb.success /\ (item.full_path \notin files \/ response)
           THEN /\ youtube_queue' = enqueue_item(youtube_queue, item)
                /\ youtube_tree' =
                       Append(youtube_tree,
                              [status |-> item.status, progress |-> item.progress])
           ELSE UNCHANGED << youtube_queue, youtube_tree >>
    /\ UNCHANGED << downloading, current_youtube_index, info_threads,
                    fetch_threads, download_next_timers, files,
                    queue_complete_calls, last_warning >>
    /\ UNCHANGED << lib_vars, batch_tab_vars >>

(***************************************************************************)
(* Queue editing: remove_selected_youtube, clear_youtube_queue             *)
(***************************************************************************)
\* list.pop(index) and tree.delete(item), index 0-based
RemoveAt(seq, index) ==
    SubSeq(seq, 1, index) \o SubSeq(seq, index + 2, Len(seq))

remove_selected_youtube(index) ==
    /\ remove_selected_btn
    /\ index \in 0..(Len(youtube_tree) - 1)
    /\ IF 0 <= index /\ index < Len(youtube_queue)
       THEN /\ youtube_queue' = RemoveAt(youtube_queue, index)
            /\ youtube_tree' = RemoveAt(youtube_tree, index)
       ELSE UNCHANGED << youtube_queue, youtube_tree >>
    /\ UNCHANGED << downloading, current_youtube_index, info_threads,
                    fetch_threads, after_queue, download_next_timers, files,
                    queue_complete_calls, last_warning >>
    /\ UNCHANGED << lib_vars, batch_tab_vars >>

\* confirmed is the user's answer to the "clear the whole queue?" question
clear_youtube_queue(confirmed) ==
    /\ clear_queue_btn
    /\ IF confirmed
       THEN /\ youtube_queue' = << >>
            /\ youtube_tree' = << >>
       ELSE UNCHANGED << youtube_queue, youtube_tree >>
    /\ UNCHANGED << downloading, current_youtube_index, info_threads,
                    fetch_threads, after_queue, download_next_timers, files,
                    queue_complete_calls, last_warning >>
    /\ UNCHANGED << lib_vars, batch_tab_vars >>

(***************************************************************************)
(* The queue run: start_youtube_queue_download, download_next_youtube_video,*)
(* youtube_queue_item_complete, youtube_queue_complete                      *)
(***************************************************************************)
\* os.path.exists(item.get('full_path', ''))
file_exists(index) == youtube_queue[index + 1].full_path \in files

\* Either mark taken for the check mark
already_completed_any_mark(current_status) ==
    Contains(current_status, OkMark) \/ Contains(current_status, ErrMark)

\* '[ok]' in current_status
already_completed(current_status) == Contains(current_status, OkMark)

\* '[x]' in current_status
is_failed(current_status) == Contains(current_status, ErrMark)

\* The skip decided from the disk alone, the status not looked at
skip_item_file_only(index) ==
    /\ index < Len(youtube_tree)
    /\ file_exists(index)

\* The skip decided from the status alone, the disk not looked at again
skip_item_status_only(index) ==
    /\ index < Len(youtube_tree)
    /\ already_completed(youtube_tree[index + 1].status)

\* if file_exists and already_completed  (under index < len(tree_items))
skip_item(index) ==
    /\ index < Len(youtube_tree)
    /\ file_exists(index)
    /\ already_completed(youtube_tree[index + 1].status)

\* The summary of start_youtube_queue_download: how it counts item i
\* ("existing", "failed" or "new")
summary_class(i) ==
    IF i < Len(youtube_tree)
    THEN IF file_exists(i) /\ already_completed(youtube_tree[i + 1].status)
         THEN "existing"
         ELSE IF is_failed(youtube_tree[i + 1].status) THEN "failed"
         ELSE "new"
    ELSE "new"

summary_count(class) ==
    Cardinality({ i \in 0..(Len(youtube_queue) - 1) : summary_class(i) = class })

existing_files == summary_count("existing")

failed_retries == summary_count("failed")

new_downloads == summary_count("new")

\* The early return taken although failed items wait for a retry
nothing_to_download_ignoring_failed == new_downloads = 0

\* The early return left out
nothing_to_download_never == FALSE

\* if new_downloads == 0 and failed_retries == 0: nothing to download
nothing_to_download == new_downloads = 0 /\ failed_retries = 0

\* The end of the queue taken one item early
queue_exhausted_early(index) == index >= Len(youtube_queue) - 1

\* if self.current_youtube_index >= len(self.youtube_queue)
queue_exhausted(index) == index >= Len(youtube_queue)

\* sum(1 for item in tree if '[ok]' in status)
successful_count ==
    Cardinality({ i \in 1..Len(youtube_tree) :
                    Contains(youtube_tree[i].status, OkMark) })

\* values[3] = status; values[4] = progress, when the row exists
SetRow(tree, index, status, progress) ==
    IF index < Len(tree)
    THEN [tree EXCEPT ![index + 1] = [status |-> status, progress |-> progress]]
    ELSE tree

\* youtube_queue_complete: what it leaves in downloading, the index and the
\* notification it gives (status line and message box)
queue_complete_report ==
    [successful |-> successful_count, total |-> Len(youtube_queue)]

\* download_next_youtube_video, called with self.current_youtube_index = index,
\* self.downloading = flag, `timers` other download_next timers still pending
\* and `calls` the queue-complete notifications given so far
download_next_youtube_video(index, flag, timers, calls) ==
    IF index < Len(youtube_queue) /\ skip_item(index)
    THEN \* skip: mark, advance, look at the next item after 500 ms
         /\ youtube_tree' = SetRow(youtube_tree, index, StatusAlreadyExists, "100%")
         /\ current_youtube_index' = index + 1
         /\ download_next_timers' = timers + 1
         /\ downloading' = flag
         /\ queue_complete_calls' = calls
         /\ UNCHANGED fetch_threads
    ELSE IF queue_exhausted(index)
    THEN \* youtube_queue_complete()
         /\ downloading' = FALSE
         /\ current_youtube_index' = 0
         /\ queue_complete_calls' = Append(calls, queue_complete_report)
         /\ download_next_timers' = timers
         /\ UNCHANGED << youtube_tree, fetch_threads >>
    ELSE \* start the fetch worker for this item
         /\ youtube_tree' = SetRow(youtube_tree, index, StatusDownloading, "0%")
         /\ fetch_threads' =
                fetch_threads (+)
                SetToBag({[url |-> youtube_queue[index + 1].url,
                           dest |-> youtube_queue[index + 1].dest,
                           index |-> index, pc |-> "start"]})
         /\ current_youtube_index' = index
         /\ download_next_timers' = timers
         /\ downloading' = flag
         /\ queue_complete_calls' = calls

\* start_youtube_queue_download; folder is the text of the folder entry and
\* confirmed the user's answer to the summary
start_youtube_queue_download(folder, confirmed) ==
    /\ download_queue_btn
    /\ IF youtube_queue = << >>
       THEN UNCHANGED << youtube_tree, downloading, current_youtube_index,
                         fetch_threads, download_next_timers,
                         queue_complete_calls, last_warning >>
       ELSE IF folder = ""
       THEN /\ last_warning' = WarnNoDest
            /\ UNCHANGED << youtube_tree, downloading, current_youtube_index,
                            fetch_threads, download_next_timers,
                            queue_complete_calls >>
       ELSE IF nothing_to_download \/ ~confirmed
       THEN UNCHANGED << youtube_tree, downloading, current_youtube_index,
                         fetch_threads, download_next_timers,
                         queue_complete_calls, last_warning >>
       ELSE /\ download_next_youtube_video(0, TRUE, download_next_timers, << >>)
            /\ UNCHANGED last_warning
    /\ UNCHANGED << youtube_queue, info_threads, after_queue, files >>
    /\ UNCHANGED << lib_vars, batch_tab_vars >>

\* A root.after(500 / 1000, self.download_next_youtube_video) timer fires
download_next_timer ==
    /\ download_next_timers > 0
    /\ download_next_youtube_video(current_youtube_index, downloading,
                                   download_next_timers - 1, queue_complete_calls)
    /\ UNCHANGED << youtube_queue, info_threads, after_queue, files,
                    last_warning >>
    /\ UNCHANGED << lib_vars, batch_tab_vars >>

(***************************************************************************)
(* The fetch worker: download_youtube_queue_item running                   *)
(* youtube_downloader.download_youtube_audio                               *)
(***************************************************************************)
\* f"{title}.mp3", then f"{title} ({counter}).mp3" for counter = 1, 2, ...
output_filename(title, counter) ==
    IF counter = 0 THEN title \o ".mp3"
    ELSE title \o " (" \o ToString(counter) \o ").mp3"

\* Collisions of the output name not looked at
output_path_unnumbered(dest_folder, title) ==
    PathJoin(dest_folder, output_filename(title, 0))

\* while os.path.exists(output_path): ... counter += 1
output_path(dest_folder, title) ==
    LET path(n) == PathJoin(dest_folder, output_filename(title, n))
        first == CHOOSE n \in 0..Cardinality(files) :
                     /\ path(n) \notin files
                     /\ \A m \in 0..(n - 1) : path(m) \in files
    IN  path(first)

\* progress_callback(...): the worker posts update_youtube_queue_progress.
\* The first report is made before anything can fail; later reports post the
\* same callback and are not told apart.
fetch_report_progress(thread) ==
    /\ BagIn(thread, fetch_threads)
    /\ thread.pc = "start"
    /\ fetch_threads' =
           (fetch_threads (-) SetToBag({thread}))
               (+) SetToBag({[thread EXCEPT !.pc = "working"]})
    /\ after_queue' =
           Append(after_queue,
                  [handler |-> "update_youtube_queue_progress",
                   index |-> thread.index])
    /\ UNCHANGED << youtube_queue, youtube_tree, downloading,
                    current_youtube_index, info_threads, download_next_timers,
                    files, queue_complete_calls, last_warning >>
    /\ UNCHANGED << lib_vars, batch_tab_vars >>

\* The worker writing the item's status itself before it posts
download_youtube_queue_item_writing_status(thread, success) ==
    /\ BagIn(thread, fetch_threads)
    /\ thread.pc = "working"
    /\ fetch_threads' = fetch_threads (-) SetToBag({thread})
    /\ IF success
       THEN /\ Cardinality(files) < MaxFiles
            /\ files' = files \cup
                   { output_path(thread.dest,
                                 sanitize_filename(VideoTitle(thread.url))) }
       ELSE UNCHANGED files
    /\ youtube_tree' =
           IF success
           THEN SetRow(youtube_tree, thread.index, StatusCompleted, "100%")
           ELSE SetRow(youtube_tree, thread.index, StatusFailed, "0%")
    /\ after_queue' =
           Append(after_queue,
                  [handler |-> "youtube_queue_item_complete",
                   success |-> success, index |-> thread.index])
    /\ UNCHANGED << youtube_queue, downloading,
                    current_youtube_index, info_threads, download_next_timers,
                    queue_complete_calls, last_warning >>
    /\ UNCHANGED << lib_vars, batch_tab_vars >>

\* download_youtube_audio returns and the worker posts
\* youtube_queue_item_complete.  success = FALSE: no audio stream, or an
\* exception of the platform client, the download or the export.
download_youtube_queue_item(thread, success) ==
    /\ BagIn(thread, fetch_threads)
    /\ thread.pc = "working"
    /\ fetch_threads' = fetch_threads (-) SetToBag({thread})
    /\ IF success
       THEN /\ Cardinality(files) < MaxFiles
            /\ files' = files \cup
                   { output_path(thread.dest,
                                 sanitize_filename(VideoTitle(thread.url))) }
       ELSE UNCHANGED files
    /\ after_queue' =
           Append(after_queue,
                  [handler |-> "youtube_queue_item_complete",
                   success |-> success, index |-> thread.index])
    /\ UNCHANGED << youtube_queue, youtube_tree, downloading,
                    current_youtube_index, info_threads, download_next_timers,
                    queue_complete_calls, last_warning >>
    /\ UNCHANGED << lib_vars, batch_tab_vars >>

\* update_youtube_queue_progress, run by the main loop
update_youtube_queue_progress ==
    /\ after_queue # << >>
    /\ Head(after_queue).handler = "update_youtube_queue_progress"
    /\ after_queue' = Tail(after_queue)
    /\ LET index == Head(after_queue).index
       IN  youtube_tree' =
               IF index < Len(youtube_tree)
               THEN [youtube_tree EXCEPT ![index + 1].progress = "50%"]
               ELSE youtube_tree
    /\ UNCHANGED << youtube_queue, downloading, current_youtube_index,
                    info_threads, fetch_threads, download_next_timers, files,
                    queue_complete_calls, last_warning >>
    /\ UNCHANGED << lib_vars, batch_tab_vars >>

\* The handler storing the collision-renamed name as the item's target
youtube_queue_item_complete_retargeting ==
    /\ after_queue # << >>
    /\ Head(after_queue).handler = "youtube_queue_item_complete"
    /\ after_queue' = Tail(after_queue)
    /\ LET cb == Head(after_queue)
       IN  /\ youtube_tree' =
                  IF cb.success
                  THEN SetRow(youtube_tree, cb.index, StatusCompleted, "100%")
                  ELSE SetRow(youtube_tree, cb.index, StatusFailed, "0%")
           /\ youtube_queue' =
                  IF cb.success /\ cb.index < Len(youtube_queue)
                  THEN [youtube_queue EXCEPT
                           ![cb.index + 1].full_path =
                               PathJoin(youtube_queue[cb.index + 1].dest,
                                        output_filename(
                                            sanitize_filename(
                                                youtube_queue[cb.index + 1].title),
                                            1))]
                  ELSE youtube_queue
    /\ current_youtube_index' = current_youtube_index + 1
    /\ download_next_timers' = download_next_timers + 1
    /\ UNCHANGED << downloading, info_threads,
                    fetch_threads, files, queue_complete_calls, last_warning >>
    /\ UNCHANGED << lib_vars, batch_tab_vars >>

\* The handler staying on an item that failed
youtube_queue_item_complete_stuck_on_failure ==
    /\ after_queue # << >>
    /\ Head(after_queue).handler = "youtube_queue_item_complete"
    /\ after_queue' = Tail(after_queue)
    /\ LET cb == Head(after_queue)
       IN  /\ youtube_tree' =
                  IF cb.success
                  THEN SetRow(youtube_tree, cb.index, StatusCompleted, "100%")
                  ELSE SetRow(youtube_tree, cb.index, StatusFailed, "0%")
           /\ current_youtube_index' =
                  IF cb.success
                  THEN current_youtube_index + 1
                  ELSE current_youtube_index
    /\ download_next_timers' = download_next_timers + 1
    /\ UNCHANGED << youtube_queue, downloading, info_threads,
                    fetch_threads, files, queue_complete_calls, last_warning >>
    /\ UNCHANGED << lib_vars, batch_tab_vars >>

\* The handler not arming the timer for the next item
youtube_queue_item_complete_without_timer ==
    /\ after_queue # << >>
    /\ Head(after_queue).handler = "youtube_queue_item_complete"
    /\ after_queue' = Tail(after_queue)
    /\ LET cb == Head(after_queue)
       IN  youtube_tree' =
               IF cb.success
               THEN SetRow(youtube_tree, cb.index, StatusCompleted, "100%")
               ELSE SetRow(youtube_tree, cb.index, StatusFailed, "0%")
    /\ current_youtube_index' = current_youtube_index + 1
    /\ UNCHANGED << youtube_queue, downloading, info_threads,
                    fetch_threads, files, queue_complete_calls, last_warning,
                    download_next_timers >>
    /\ UNCHANGED << lib_vars, batch_tab_vars >>

\* youtube_queue_item_complete, run by the main loop
youtube_queue_item_complete ==
    /\ after_queue # << >>
    /\ Head(after_queue).handler = "youtube_queue_item_complete"
    /\ after_queue' = Tail(after_queue)
    /\ LET cb == Head(after_queue)
       IN  youtube_tree' =
               IF cb.success
               THEN SetRow(youtube_tree, cb.index, StatusCompleted, "100%")
               ELSE SetRow(youtube_tree, cb.index, StatusFailed, "0%")
    /\ current_youtube_index' = current_youtube_index + 1
    /\ download_next_timers' = download_next_timers + 1
    /\ UNCHANGED << youtube_queue, downloading, info_threads,
                    fetch_threads, files, queue_complete_calls, last_warning >>
    /\ UNCHANGED << lib_vars, batch_tab_vars >>

(***************************************************************************)
(* The filesystem changes under the program: another program creates the   *)
(* target file of a queue item, or deletes a file.                         *)
(***************************************************************************)
external_create(path) ==
    /\ \E i \in 1..Len(youtube_queue) : youtube_queue[i].full_path = path
    /\ path \notin files
    /\ Cardinality(files) < MaxFiles
    /\ files' = files \cup {path}
    /\ UNCHANGED << youtube_queue, youtube_tree, downloading,
                    current_youtube_index, info_threads, fetch_threads,
                    after_queue, download_next_timers, queue_complete_calls, last_warning >>
    /\ UNCHANGED << lib_vars, batch_tab_vars >>

external_delete(path) ==
    /\ path \in files
    /\ files' = files \ {path}
    /\ UNCHANGED << youtube_queue, youtube_tree, downloading,
                    current_youtube_index, info_threads, fetch_threads,
                    after_queue, download_next_timers, queue_complete_calls, last_warning >>
    /\ UNCHANGED << lib_vars, batch_tab_vars >>

(***************************************************************************)
(* Specification.                                                          *)
(***************************************************************************)
\* Paths a queue item can name
QueuePaths == { youtube_queue[i].full_path : i \in 1..Len(youtube_queue) }

\* Every step but the main loop running add_video_to_queue
OtherSteps ==
    \/ \E typed \in UrlInputs, folder \in DestInputs :
           add_to_youtube_queue(typed, folder)
    \/ \E thread \in BagToSet(info_threads), success \in BOOLEAN :
           fetch_and_add_video(thread, success)
    \/ \E index \in 0..(MaxQueue - 1) : remove_selected_youtube(index)
    \/ \E confirmed \in BOOLEAN : clear_youtube_queue(confirmed)
    \/ \E folder \in DestInputs, confirmed \in BOOLEAN :
           start_youtube_queue_download(folder, confirmed)
    \/ download_next_timer
    \/ \E thread \in BagToSet(fetch_threads) : fetch_report_progress(thread)
    \/ \E thread \in BagToSet(fetch_threads), success \in BOOLEAN :
           download_youtube_queue_item(thread, success)
    \/ update_youtube_queue_progress
    \/ youtube_queue_item_complete
    \/ \E path \in QueuePaths : external_create(path)
    \/ \E path \in files : external_delete(path)

Next ==
    \/ OtherSteps
    \/ \E response \in BOOLEAN : add_video_to_queue(response)

Spec == Init /\ [][Next]_vars

\* The behaviours in which the user never confirms enqueuing a video whose
\* target file already exists: every queue item's target file was absent
\* when the item was enqueued.
NextDeclineOverwrite ==
    \/ OtherSteps
    \/ add_video_to_queue(FALSE)

SpecDeclineOverwrite == Init /\ [][NextDeclineOverwrite]_vars

(***************************************************************************)
(* Properties.                                                             *)
(***************************************************************************)
Rows == 1..Len(youtube_tree)

\* Fetches on their way: a worker running, its completion posted but not
\* yet handled, or the timer that will look at the next item
FetchesInFlight ==
    BagCardinality(fetch_threads) + PostedCount("youtube_queue_item_complete")

\* C1: no two items of the queue have the same url, also while lookups of
\* several accepted requests are still pending.
C1_NoDuplicateUrls ==
    \A i, j \in 1..Len(youtube_queue) :
        i # j => youtube_queue[i].url # youtube_queue[j].url

\* C2: at most one fetch worker is in flight; during a run exactly one of
\* these exists: a running worker, its posted completion, or the timer set by
\* the completion (or skip) handler that starts the next item; outside a run
\* none exists, so no second run is under way beside the first.
C2_OneFetchAtATime ==
    /\ BagCardinality(fetch_threads) <= 1
    /\ FetchesInFlight + download_next_timers = (IF downloading THEN 1 ELSE 0)

\* The second item's worker runs after the first item's completion was handled
C2_Witness ==
    /\ downloading
    /\ \E t \in BagToSet(fetch_threads) : t.index = 1
    /\ youtube_tree[1].status \in { StatusCompleted, StatusFailed }

\* C3: the queue-complete notification is given at most once per run, only
\* by the step that ends the run, when the index has passed the last item and
\* no fetch is in flight; every step that ends a run gives it; it reports the
\* queue length as total and a successful count that is at most the total.
C3_CompleteOnce ==
    /\ [](Len(queue_complete_calls) <= 1)
    /\ [](downloading => queue_complete_calls = << >>)
    /\ [][ /\ (downloading /\ ~downloading') => Len(queue_complete_calls') = 1
           /\ (queue_complete_calls' # queue_complete_calls
                  /\ queue_complete_calls' # << >>) =>
                 /\ downloading /\ ~downloading'
                 /\ current_youtube_index >= Len(youtube_queue)
                 /\ FetchesInFlight = 0
                 /\ queue_complete_calls'[1].total = Len(youtube_queue')
                 /\ queue_complete_calls'[1].successful
                        <= queue_complete_calls'[1].total
         ]_vars

\* A run over two items has ended with its notification
C3_Witness ==
    /\ ~downloading
    /\ Len(queue_complete_calls) = 1
    /\ queue_complete_calls[1].total = 2
    /\ queue_complete_calls[1].successful = 1

(***************************************************************************)
(* Steps of a run, as the properties below see them.                       *)
(***************************************************************************)
QueueIndexes == 0..(Len(youtube_queue) - 1)

TargetOnDisk(i) == youtube_queue[i + 1].full_path \in files

StatusOf(i) == youtube_tree[i + 1].status

DoneStatuses == { StatusCompleted, StatusAlreadyExists }

\* The step that starts a run
RunStarts == ~downloading /\ downloading'

\* The step in which a run reaches item i: the start of the run for item 0,
\* a download_next timer for the item at the current index
RunReaches(i) ==
    \/ RunStarts /\ i = 0
    \/ download_next_timer /\ downloading /\ current_youtube_index = i

\* Item i is skipped: marked, index advanced, no worker started
Skipped(i) ==
    /\ youtube_tree' =
           [youtube_tree EXCEPT
               ![i + 1] = [status |-> StatusAlreadyExists, progress |-> "100%"]]
    /\ current_youtube_index' = i + 1
    /\ fetch_threads' = fetch_threads

\* Item i is fetched: marked Downloading, one worker started for it
Fetched(i) ==
    /\ youtube_tree'[i + 1].status = StatusDownloading
    /\ current_youtube_index' = i
    /\ fetch_threads' =
           fetch_threads (+)
           SetToBag({[url |-> youtube_queue[i + 1].url,
                      dest |-> youtube_queue[i + 1].dest,
                      index |-> i, pc |-> "start"]})

\* Every item is done and its target file is on disk
AllDone ==
    /\ has_items
    /\ \A i \in QueueIndexes : TargetOnDisk(i) /\ StatusOf(i) \in DoneStatuses

\* A run can be started now with the folder entry filled in and the summary
\* confirmed
RunCanStart ==
    \E folder \in DestInputs \ {""} :
        ENABLED (start_youtube_queue_download(folder, TRUE) /\ downloading')

C5_SkipIffDoneAndOnDisk ==
    [][ \A i \in QueueIndexes :
            RunReaches(i) =>
                IF TargetOnDisk(i) /\ StatusOf(i) \in DoneStatuses
                THEN Skipped(i)
                ELSE Fetched(i)
      ]_vars

\* In one run an item was skipped and the next one is being fetched
C5_Witness ==
    /\ downloading
    /\ Len(youtube_tree) = 2
    /\ youtube_tree[1].status = StatusAlreadyExists
    /\ youtube_tree[2].status = StatusDownloading
    /\ fetch_threads # EmptyBag

\* C6 as claimed (SpecDeclineOverwrite: every item's target file was absent
\* when the item was enqueued): an item whose target file is on disk when the
\* run reaches it is skipped.
C6_AppearedFileSkipped ==
    [][ \A i \in QueueIndexes :
            RunReaches(i) /\ TargetOnDisk(i) => Skipped(i) ]_vars

\* C6 as amended (SpecDeclineOverwrite): an item whose target file is on disk
\* when the run reaches it is skipped only if its status is Completed or
\* AlreadyExists; a Pending or Failed item is fetched although its file has
\* appeared.
C6_AppearedFileSkippedOnlyIfDone ==
    [][ \A i \in QueueIndexes :
            RunReaches(i) /\ TargetOnDisk(i) =>
                /\ StatusOf(i) \in DoneStatuses => Skipped(i)
                /\ StatusOf(i) \in { StatusPending, StatusFailed } => Fetched(i)
      ]_vars

\* The first run over a queue is fetching an item whose file is on disk
C6_Witness ==
    /\ downloading
    /\ current_youtube_index = 0
    /\ Len(youtube_queue) = 2
    /\ TargetOnDisk(0)
    /\ youtube_tree[1].status = StatusDownloading
    /\ youtube_tree[2].status = StatusPending
    /\ \E t \in BagToSet(fetch_threads) : t.index = 0 /\ t.pc = "start"

\* The status changes of one row
StatusStep(old, new) ==
    \/ old = StatusPending /\ new = StatusDownloading
    \/ old = StatusDownloading /\ new \in { StatusCompleted, StatusFailed }
    \/ old \in DoneStatuses /\ new = StatusAlreadyExists
    \/ old \in { StatusFailed, StatusCompleted, StatusAlreadyExists }
          /\ new = StatusDownloading

\* C7: a row's status changes only along Pending -> Downloading ->
\* {Completed, Failed}, Completed/AlreadyExists -> AlreadyExists and
\* Failed/Completed/AlreadyExists -> Downloading, only for the item at the
\* current index of a run in progress (the first item when the run starts);
\* new rows start Pending, rows leave
\* only by removal or clearing outside a run; outside a run no row is
\* Downloading.
C7_StatusTransitions ==
    /\ [](~downloading => \A i \in Rows : youtube_tree[i].status # StatusDownloading)
    /\ [][ /\ Len(youtube_tree') = Len(youtube_tree) =>
                 \A i \in Rows :
                     youtube_tree'[i].status # youtube_tree[i].status =>
                         /\ StatusStep(youtube_tree[i].status, youtube_tree'[i].status)
                         /\ \/ downloading /\ i - 1 = current_youtube_index
                            \/ RunStarts /\ i = 1
           /\ Len(youtube_tree') > Len(youtube_tree) =>
                 youtube_tree' =
                     Append(youtube_tree,
                            [status |-> StatusPending, progress |-> "0%"])
           /\ Len(youtube_tree') < Len(youtube_tree) =>
                 /\ ~downloading
                 /\ \/ youtube_tree' = << >>
                    \/ \E k \in QueueIndexes : youtube_tree' = RemoveAt(youtube_tree, k)
         ]_vars

\* A later run has ended: one item was skipped, the other failed
C7_Witness ==
    /\ ~downloading
    /\ queue_complete_calls # << >>
    /\ Len(youtube_tree) = 2
    /\ youtube_tree[1].status = StatusAlreadyExists
    /\ youtube_tree[2].status = StatusFailed

HasFailed == \E i \in Rows : youtube_tree[i].status = StatusFailed

\* C8 as claimed: whenever the queue holds a Failed item a start request
\* starts a run, whatever the folder entry holds and whatever the user
\* answers to the summary; a Failed item the run reaches is fetched.
C8_RunStartsWheneverFailed ==
    /\ [](~downloading /\ HasFailed =>
            \A folder \in DestInputs, confirmed \in BOOLEAN :
                ENABLED (start_youtube_queue_download(folder, confirmed)
                            /\ downloading'))
    /\ [][ \A i \in QueueIndexes :
               RunReaches(i) /\ StatusOf(i) = StatusFailed => Fetched(i) ]_vars

\* C8 as amended: whenever the queue holds a Failed item, a start request
\* with the folder entry filled in and the summary confirmed starts a run
\* (it is never turned down as "nothing to download"); a Failed item the run
\* reaches is fetched, whether or not its target file is on disk.
C8_FailedRetried ==
    /\ [](~downloading /\ HasFailed => RunCanStart)
    /\ [][ \A i \in QueueIndexes :
               RunReaches(i) /\ StatusOf(i) = StatusFailed => Fetched(i) ]_vars

\* A run is fetching the first item while the second is still Failed from
\* the run before, its target file on disk
C8_Witness ==
    /\ downloading
    /\ current_youtube_index = 0
    /\ Len(youtube_tree) = 2
    /\ youtube_tree[1].status = StatusDownloading
    /\ youtube_tree[2].status = StatusFailed
    /\ TargetOnDisk(1)

\* What validate_youtube_url answers for each text the user can type
PassesValidate ==
    [typed \in UrlInputs |-> validate_youtube_url(Strip(typed))]

\* An enqueue request that must be rejected
MustReject(typed, folder) ==
    \/ ~PassesValidate[typed]
    \/ typed_dest[folder] = ""
    \/ \E i \in 1..Len(youtube_queue) : youtube_queue[i].url = typed_url[typed].url

\* C9: an enqueue request with an invalid url, an empty folder or a url
\* already in the queue changes neither the queue nor the lookups running or
\* posted; every queue item has a url that passes validate_youtube_url and a
\* non-empty folder.
C9_EnqueueRejected ==
    /\ [](\A i \in 1..Len(youtube_queue) :
             /\ validate_youtube_url(youtube_queue[i].url)
             /\ youtube_queue[i].dest # "")
    /\ [][ \A typed \in UrlInputs, folder \in DestInputs :
               add_to_youtube_queue(typed, folder) /\ MustReject(typed, folder) =>
                   UNCHANGED << youtube_queue, youtube_tree, info_threads,
                                after_queue >> ]_vars

\* A url already in the queue has just been turned down
C9_Witness ==
    /\ last_warning = WarnInQueue
    /\ Len(youtube_queue) = 1
    /\ info_threads = EmptyBag
    /\ after_queue = << >>

\* The main loop runs a posted add_video_to_queue
DispatchAdd ==
    /\ after_queue # << >>
    /\ Head(after_queue).handler = "add_video_to_queue"
    /\ after_queue' = Tail(after_queue)

\* One Pending item for the looked-up url is appended, the rest is as before
AppendedOne(url) ==
    /\ Len(youtube_queue') = Len(youtube_queue) + 1
    /\ SubSeq(youtube_queue', 1, Len(youtube_queue)) = youtube_queue
    /\ youtube_queue'[Len(youtube_queue')].url = url
    /\ youtube_queue'[Len(youtube_queue')].status = StatusPending
    /\ youtube_tree' =
           Append(youtube_tree, [status |-> StatusPending, progress |-> "0%"])
    /\ current_youtube_index' = current_youtube_index

QueueUntouched ==
    UNCHANGED << youtube_queue, youtube_tree, current_youtube_index >>

\* The target path add_video_to_queue computes for a looked-up title
LookupTargetOnDisk(cb) ==
    PathJoin(cb.dest, app_sanitize_filename(cb.title) \o ".mp3") \in files

\* C10 as claimed: a successful lookup appends exactly one Pending item with
\* the enqueued url at the end of the queue and leaves the other items and
\* the run index alone; a failed lookup leaves the queue unchanged.
C10_LookupSuccessAppends ==
    [][ DispatchAdd =>
            IF Head(after_queue).success
            THEN AppendedOne(Head(after_queue).url)
            ELSE QueueUntouched ]_vars

\* C10 as amended: a successful lookup appends exactly one Pending item with
\* the enqueued url at the end of the queue and leaves the other items and
\* the run index alone, unless the target file is already on disk, where the
\* user's answer decides between that and leaving the queue unchanged; a
\* failed lookup leaves the queue unchanged.
C10_LookupAppendsUnlessDeclined ==
    [][ DispatchAdd =>
            IF ~Head(after_queue).success
            THEN QueueUntouched
            ELSE IF LookupTargetOnDisk(Head(after_queue))
            THEN AppendedOne(Head(after_queue).url) \/ QueueUntouched
            ELSE AppendedOne(Head(after_queue).url) ]_vars

\* A second item was appended while a run was fetching the first
C10_Witness ==
    /\ downloading
    /\ Len(youtube_queue) = 2
    /\ youtube_queue[2].url # youtube_queue[1].url
    /\ youtube_tree[1].status = StatusDownloading
    /\ youtube_tree[2].status = StatusPending
    /\ after_queue = << >>

\* C11: an item's full_path is the join of its folder and file name made
\* when the item was inserted, and no step changes an item of the queue:
\* a step leaves the queue as it is, appends one item after the others,
\* removes one item or (clearing) all of them; this holds for steps taken
\* with another text in the folder entry and for the completion of a fetch
\* that wrote under a collision-renamed name.
C11_TargetFixed ==
    /\ [](\A i \in 1..Len(youtube_queue) :
             youtube_queue[i].full_path =
                 PathJoin(youtube_queue[i].dest, youtube_queue[i].filename))
    /\ [][ /\ Len(youtube_queue') = Len(youtube_queue) =>
                 youtube_queue' = youtube_queue
           /\ Len(youtube_queue') > Len(youtube_queue) =>
                 SubSeq(youtube_queue', 1, Len(youtube_queue)) = youtube_queue
           /\ Len(youtube_queue') < Len(youtube_queue) =>
                 \/ youtube_queue' = << >>
                 \/ \E k \in QueueIndexes :
                        youtube_queue' = RemoveAt(youtube_queue, k)
         ]_vars

\* The first item's fetch completed and wrote under a renamed file name,
\* its target being taken; the item still names its original target
C11_Witness ==
    /\ Len(youtube_queue) >= 1
    /\ youtube_tree[1].status = StatusCompleted
    /\ youtube_queue[1].full_path = "d/a_b.mp3"
    /\ files = { "d/a_b.mp3", "d/a_b (1).mp3" }

\* C13: during a run the items keep their places (the queue only grows at
\* its end), the index moves one item at a time, an item the run reaches is
\* skipped or fetched and is reached with no fetch in flight, a fetch leaves
\* no timer behind, a timer is set only together with the move to the next
\* item, a fetch that ends, Completed or Failed, moves the index on and sets
\* the timer for the next item, and the run ends only with the index past
\* the last item.
C13_EachItemVisitedOnce ==
    /\ [](downloading /\ download_next_timers > 0 => FetchesInFlight = 0)
    /\ [][ /\ (downloading /\ downloading') =>
                 /\ SubSeq(youtube_queue', 1, Len(youtube_queue)) = youtube_queue
                 /\ current_youtube_index' \in
                        { current_youtube_index, current_youtube_index + 1 }
                 /\ download_next_timers' > download_next_timers =>
                        current_youtube_index' = current_youtube_index + 1
           /\ \A i \in QueueIndexes :
                 RunReaches(i) =>
                     /\ RunStarts \/ FetchesInFlight = 0
                     /\ \/ Skipped(i) /\ download_next_timers' = 1
                        \/ Fetched(i) /\ download_next_timers' = 0
           /\ \A i \in Rows :
                 (/\ youtube_tree[i].status = StatusDownloading
                  /\ Len(youtube_tree') = Len(youtube_tree)
                  /\ youtube_tree'[i].status \in { StatusCompleted, StatusFailed }) =>
                     /\ current_youtube_index = i - 1
                     /\ current_youtube_index' = i
                     /\ download_next_timers' = 1
           /\ (downloading /\ ~downloading') =>
                 current_youtube_index >= Len(youtube_queue)
         ]_vars

\* The first item failed and the run is fetching the second
C13_Witness ==
    /\ downloading
    /\ current_youtube_index = 1
    /\ Len(youtube_tree) = 2
    /\ youtube_tree[1].status = StatusFailed
    /\ youtube_tree[2].status = StatusDownloading
    /\ \E t \in BagToSet(fetch_threads) : t.index = 1

(***************************************************************************)
(* Direct calls of the library functions.  The application's queue is      *)
(* idle in these specifications.                                           *)
(***************************************************************************)
\* The application as setup_variables leaves it, the disk empty
AppInit ==
    /\ youtube_queue = << >>
    /\ youtube_tree = << >>
    /\ downloading = FALSE
    /\ current_youtube_index = 0
    /\ info_threads = EmptyBag
    /\ fetch_threads = EmptyBag
    /\ after_queue = << >>
    /\ download_next_timers = 0
    /\ files = {}
    /\ last_warning = ""
    /\ queue_complete_calls = << >>
    /\ BatchTabInit

(***************************************************************************)
(* validate_youtube_url called on a url put together from parts.           *)
(***************************************************************************)
ValidateSchemes == { "", "http://", "https://", "ftp://" }
ValidateWwws == { "", "www." }
ValidateHosts ==
    { "", "youtube.com/watch?v=", "youtu.be/", "youtube.com/embed/",
      "youtube.com/v/", "example.com/watch?v=" }
ValidateIds ==
    { "", "short", "dQw4w9WgXc", "dQw4w9WgXcQ", "a_b-c_d-e_f", "dQw4w9WgXc!",
      "dQw4w9WgXcQX" }
ValidateTails == { "", "&t=1" }

ValidateInputs ==
    [scheme : ValidateSchemes, www : ValidateWwws, host : ValidateHosts,
     id : ValidateIds, tail : ValidateTails]

\* The url string the parts make
UrlOf(in) == in.scheme \o in.www \o in.host \o in.id \o in.tail

InitValidate ==
    /\ AppInit
    /\ files_data = << >>
    /\ progress_calls = << >>
    /\ temp_dirs = {}
    /\ \E in \in ValidateInputs :
           call = [fn |-> "validate_youtube_url", pc |-> "called",
                   input |-> in, url |-> UrlOf(in), result |-> FALSE]

\* validate_youtube_url(url) returns
validate_return ==
    /\ call.fn = "validate_youtube_url"
    /\ call.pc = "called"
    /\ call' = [call EXCEPT !.pc = "returned",
                            !.result = validate_youtube_url(call.url)]
    /\ UNCHANGED << app_vars, batch_tab_vars, files, files_data, progress_calls, temp_dirs >>

NextValidate == validate_return

SpecValidate == InitValidate /\ [][NextValidate]_vars

\* The four accepted forms
AcceptedForms ==
    { "youtube.com/watch?v=", "youtu.be/", "youtube.com/embed/",
      "youtube.com/v/" }

\* The url is one of the accepted forms with an id token of exactly 11
\* characters of [A-Za-z0-9_-] (the token ends at the end of the url or at
\* the "&" of the tail)
AcceptedUrl(in) ==
    /\ in.scheme \in { "", "http://", "https://" }
    /\ in.host \in AcceptedForms
    /\ Len(in.id) = 11
    /\ \A i \in 1..Len(in.id) : CharAt(in.id, i) \in IdChars

\* C17 as claimed: validate_youtube_url answers true exactly for the urls of
\* an accepted form whose id token has exactly 11 characters of
\* [A-Za-z0-9_-]; the empty string, another host and a shorter or longer id
\* token are answered false.
C17_ValidateExactly ==
    (call.fn = "validate_youtube_url" /\ call.pc = "returned") =>
        (call.result <=> AcceptedUrl(call.input))

(***************************************************************************)
(* audio_converter: find_audio_files and batch_convert_audio               *)
(***************************************************************************)
\* Audio files the source folder can hold
MaxBatch == 2

\* Files a source tree can hold besides the audio files: a text file and an
\* mp3 in a subfolder
OtherNames == << "notes.txt", "sub/deep/a.mp3" >>

\* The files a source tree can hold that the scan can list, by their paths
\* under the source folder, in the order rglob yields them
SourceNames == << "a.wav", "sub/a.FLAC", "b.m4a", "c.ogg" >>

\* Every path a source tree can hold, in the order rglob yields them
TreePaths == SubSeq(SourceNames, 1, MaxBatch) \o OtherNames

TreeFiles == { TreePaths[k] : k \in 1..Len(TreePaths) }

\* supported_formats
supported_formats == { ".m4a", ".mp4", ".wav", ".flac", ".aac", ".ogg", ".wma" }

\* str.lower()
UpperLetters == "ABCDEFGHIJKLMNOPQRSTUVWXYZ"
LowerLetters == "abcdefghijklmnopqrstuvwxyz"

LowerChar(c) ==
    IF \E k \in 1..Len(UpperLetters) : CharAt(UpperLetters, k) = c
    THEN CharAt(LowerLetters,
                CHOOSE k \in 1..Len(UpperLetters) : CharAt(UpperLetters, k) = c)
    ELSE c

RECURSIVE Lower(_)
Lower(s) == IF s = "" THEN "" ELSE LowerChar(CharAt(s, 1)) \o Lower(DropFirst(s, 1))

\* file_path.name: what follows the last separator
RECURSIVE Basename(_)
Basename(path) ==
    IF \E k \in 1..Len(path) : CharAt(path, k) = "/"
    THEN Basename(DropFirst(path, CHOOSE k \in 1..Len(path) : CharAt(path, k) = "/"))
    ELSE path

\* Where the suffix of a name begins: its last dot, when that dot is neither
\* the first nor the last character; 0 when the name has no suffix
SuffixAt(name) ==
    LET dots == { k \in 2..(Len(name) - 1) : CharAt(name, k) = "." }
    IN  IF dots = {} \/ CharAt(name, Len(name)) = "." THEN 0
        ELSE CHOOSE k \in dots : \A d \in dots : d <= k

\* file_path.suffix
Suffix(path) ==
    LET name == Basename(path)
    IN  IF SuffixAt(name) = 0 THEN "" ELSE DropFirst(name, SuffixAt(name) - 1)

\* file_path.stem: the name without its suffix
Stem(path) ==
    LET name == Basename(path)
    IN  IF SuffixAt(name) = 0 THEN name ELSE SubSeq(name, 1, SuffixAt(name) - 1)

\* The folders given to find_audio_files
SourceFolder == "in"
DestFolder == "out"

\* The test on the suffix without lower()
supported_case_sensitive(path) == Suffix(path) \in supported_formats

\* file_path.suffix.lower() in supported_formats
supported(path) == Lower(Suffix(path)) \in supported_formats

\* The files of the tree the scan lists
SupportedFiles == { path \in TreeFiles : supported(path) }

\* What the scan derives from the path of a file: source, output_name,
\* output_path and the name shown
scan_names ==
    [path \in TreeFiles |->
        [source |-> PathJoin(SourceFolder, path),
         dest |-> PathJoin(DestFolder, Stem(path) \o ".mp3"),
         filename |-> Basename(path),
         output_name |-> Stem(path) \o ".mp3"]]

\* files_data.append({...}) for one file, `disk` the files that exist
scan_item(path, disk) ==
    [source |-> scan_names[path].source,
     dest |-> scan_names[path].dest,
     filename |-> scan_names[path].filename,
     output_name |-> scan_names[path].output_name,
     exists |-> scan_names[path].dest \in disk]

\* The scan list for the files of the source folder named by `present`
RECURSIVE scan_list(_, _, _)
scan_list(k, present, disk) ==
    IF k > Len(TreePaths) THEN << >>
    ELSE (IF TreePaths[k] \in present /\ TreePaths[k] \in SupportedFiles
          THEN << scan_item(TreePaths[k], disk) >>
          ELSE << >>)
         \o scan_list(k + 1, present, disk)

\* A function called directly has returned or raised
CallOver == call.pc \in { "returned", "raised" }

\* find_audio_files(source_folder, dest_folder): source_exists tells whether
\* the source folder exists, `present` names the files of its tree; the
\* caller keeps the list
find_audio_files(source_exists, present) ==
    /\ CallOver
    /\ LET result == IF source_exists THEN scan_list(1, present, files) ELSE << >>
       IN  /\ call' = [fn |-> "find_audio_files", pc |-> "returned",
                       source_exists |-> source_exists,
                       tree |-> IF source_exists THEN present ELSE {},
                       disk |-> files,
                       result |-> result]
           /\ files_data' = result
    /\ UNCHANGED << app_vars, batch_tab_vars, files, progress_calls, temp_dirs >>

\* What a progress_callback supplied can do: none is supplied, it returns,
\* it raises
CallbackKinds == { "none", "returns", "raises" }

\* if progress_callback: progress_callback(...)
progress(calls, callback, entry) ==
    IF callback = "none" THEN calls ELSE Append(calls, entry)

progress_entry(count, total, label, flag) ==
    [count |-> count, total |-> total, label |-> label, flag |-> flag]

\* The terminal call of a converted item with True whatever came of it
terminal_entry_always_true(count, total, filename, ok) ==
    progress_entry(count, total,
                   (IF ok THEN "Tamamlandi: " ELSE "Hata: ") \o filename, "True")

\* progress_callback(i + 1, total_files, f"Tamamlandi: ...", True) and
\* progress_callback(i + 1, total_files, f"Hata: ...", False)
terminal_entry(count, total, filename, ok) ==
    progress_entry(count, total,
                   (IF ok THEN "Tamamlandi: " ELSE "Hata: ") \o filename,
                   IF ok THEN "True" ELSE "False")

\* The failure counted without its message
record_failure_without_message(results, error_msg) ==
    [results EXCEPT !.failed = @ + 1]

\* results['errors'].append(error_msg); results['failed'] += 1
record_failure(results, error_msg) ==
    [results EXCEPT !.errors = Append(@, error_msg), !.failed = @ + 1]

\* An except clause of the loop body: the failure is recorded and reported;
\* a callback that raises there raises out of the function
handle_exception(results, calls, callback, count, total, filename, error_msg) ==
    [results |-> record_failure(results, error_msg),
     calls |-> progress(calls, callback,
                        terminal_entry(count, total, filename, FALSE)),
     pc |-> IF callback = "raises" THEN "raised" ELSE "loop"]

\* batch_convert_audio(files_data, progress_callback) is called
batch_call(callback) ==
    /\ CallOver
    /\ call' = [fn |-> "batch_convert_audio",
                pc |-> IF files_data = << >> THEN "returned" ELSE "loop",
                i |-> 0,
                results |-> [success |-> 0, failed |-> 0, skipped |-> 0,
                             errors |-> << >>],
                files_data |-> files_data,
                progress_callback |-> callback]
    /\ progress_calls' = << >>
    /\ UNCHANGED << app_vars, batch_tab_vars, files, files_data, temp_dirs >>

\* The loop goes on with the next item, or the function returns
batch_continue(pc, i, results) ==
    [call EXCEPT !.results = results,
                 !.i = IF pc = "loop" THEN i + 1 ELSE i,
                 !.pc = IF pc = "loop" /\ i + 1 >= Len(call.files_data)
                        THEN "returned" ELSE pc]

\* if file_info['exists']
skip_test(file_info) == file_info.exists

\* The loop body up to the in-flight report: the skip, os.makedirs and the
\* report before the conversion; makedirs_ok tells whether os.makedirs returns
batch_item(makedirs_ok) ==
    /\ call.fn = "batch_convert_audio"
    /\ call.pc = "loop"
    /\ LET file_info == call.files_data[call.i + 1]
           count == call.i + 1
           total == Len(call.files_data)
           callback == call.progress_callback
           caught(results, calls, error_msg) ==
               handle_exception(results, calls, callback, count, total,
                                file_info.filename, error_msg)
       IN  IF skip_test(file_info)
           THEN LET results == [call.results EXCEPT !.skipped = @ + 1]
                    calls == progress(progress_calls, callback,
                                 progress_entry(count, total,
                                     "Atlandi: " \o file_info.filename, "True"))
                    out == IF callback = "raises"
                           THEN caught(results, calls,
                                       "Hata (" \o file_info.filename \o "): callback")
                           ELSE [results |-> results, calls |-> calls,
                                 pc |-> "loop"]
                IN  /\ makedirs_ok
                    /\ call' = batch_continue(out.pc, call.i, out.results)
                    /\ progress_calls' = out.calls
           ELSE IF ~makedirs_ok
           THEN LET out == caught(call.results, progress_calls,
                                  "Hata (" \o file_info.filename \o "): makedirs")
                IN  /\ call' = batch_continue(out.pc, call.i, out.results)
                    /\ progress_calls' = out.calls
           ELSE LET calls == progress(progress_calls, callback,
                                 progress_entry(count, total,
                                     "Donusturuluyor: " \o file_info.filename,
                                     "None"))
                    out == IF callback = "raises"
                           THEN caught(call.results, calls,
                                       "Hata (" \o file_info.filename \o "): callback")
                           ELSE [results |-> call.results, calls |-> calls,
                                 pc |-> "convert"]
                IN  /\ call' = batch_continue(out.pc, call.i, out.results)
                    /\ progress_calls' = out.calls
    /\ UNCHANGED << app_vars, batch_tab_vars, files, files_data, temp_dirs >>

\* What AudioSegment.from_file and audio.export can come to
ConvertOutcomes == { "ok", "CouldntDecodeError", "Exception" }

\* AudioSegment.from_file, audio.export and the terminal report
batch_convert(outcome) ==
    /\ call.fn = "batch_convert_audio"
    /\ call.pc = "convert"
    /\ LET file_info == call.files_data[call.i + 1]
           count == call.i + 1
           total == Len(call.files_data)
           callback == call.progress_callback
           caught(results, calls, error_msg) ==
               handle_exception(results, calls, callback, count, total,
                                file_info.filename, error_msg)
       IN  IF outcome = "ok"
           THEN LET results == [call.results EXCEPT !.success = @ + 1]
                    calls == progress(progress_calls, callback,
                                 terminal_entry(count, total,
                                                file_info.filename, TRUE))
                    out == IF callback = "raises"
                           THEN caught(results, calls,
                                       "Hata (" \o file_info.filename \o "): callback")
                           ELSE [results |-> results, calls |-> calls,
                                 pc |-> "loop"]
                IN  /\ file_info.dest \in files \/ Cardinality(files) < MaxFiles
                    /\ files' = files \cup { file_info.dest }
                    /\ call' = batch_continue(out.pc, call.i, out.results)
                    /\ progress_calls' = out.calls
           ELSE LET out == caught(call.results, progress_calls,
                                  IF outcome = "CouldntDecodeError"
                                  THEN "Desteklenmeyen format: " \o file_info.filename
                                  ELSE "Hata (" \o file_info.filename \o "): convert")
                IN  /\ UNCHANGED files
                    /\ call' = batch_continue(out.pc, call.i, out.results)
                    /\ progress_calls' = out.calls
    /\ UNCHANGED << app_vars, batch_tab_vars, files_data, temp_dirs >>

\* Destination paths of the scan list
ScanPaths == { files_data[k].dest : k \in 1..Len(files_data) }

\* Another program creates or deletes a destination file
disk_create(path) ==
    /\ path \notin files
    /\ Cardinality(files) < MaxFiles
    /\ files' = files \cup { path }
    /\ UNCHANGED << app_vars, batch_tab_vars, lib_vars >>

disk_delete(path) ==
    /\ path \in files
    /\ files' = files \ { path }
    /\ UNCHANGED << app_vars, batch_tab_vars, lib_vars >>

NextBatch ==
    \/ \E source_exists \in BOOLEAN, present \in SUBSET TreeFiles :
           find_audio_files(source_exists, present)
    \/ \E callback \in CallbackKinds : batch_call(callback)
    \/ \E makedirs_ok \in BOOLEAN : batch_item(makedirs_ok)
    \/ \E outcome \in ConvertOutcomes : batch_convert(outcome)
    \/ \E path \in ScanPaths : disk_create(path)
    \/ \E path \in ScanPaths : disk_delete(path)

SpecBatch == Init /\ [][NextBatch]_vars

\* batch_convert_audio is running or has ended, with a callback that
\* returns (or none) where the property asks for it
InBatch == call.fn = "batch_convert_audio"

BatchRunning == InBatch /\ call.pc \in { "loop", "convert" }

BatchTotal == call.results.success + call.results.failed + call.results.skipped

\* C12: with a progress callback that returns (or none), whatever the
\* conversions come to, batch_convert_audio does not raise; the items before
\* the current one are each counted once under success, failed or skipped
\* and there are as many error messages as failed items; a failure adds one
\* to failed and one message and the loop goes on with the next item; the
\* function returns only after the last item.
C12_BatchProcessesAll ==
    /\ []((InBatch /\ call.progress_callback # "raises") =>
             /\ call.pc # "raised"
             /\ BatchTotal = call.i
             /\ Len(call.results.errors) = call.results.failed
             /\ call.pc = "returned" => call.i = Len(call.files_data))
    /\ [][ (/\ BatchRunning
            /\ call.progress_callback # "raises"
            /\ call'.results.failed # call.results.failed) =>
               /\ call'.results.failed = call.results.failed + 1
               /\ Len(call'.results.errors) = Len(call.results.errors) + 1
               /\ call'.i = call.i + 1
               /\ call'.pc = "returned" <=> call.i + 1 = Len(call.files_data)
         ]_vars

\* Of two items the first could not be decoded and the second was converted
C12_Witness ==
    /\ InBatch
    /\ call.pc = "returned"
    /\ Len(call.files_data) = 2
    /\ call.results.errors = << "Desteklenmeyen format: a.wav" >>
    /\ call.results.failed = 1
    /\ call.results.success = 1
    /\ call.results.skipped = 0

\* C14 as claimed: when the loop comes to an item, the item is skipped if
\* its destination exists on disk at that moment and is not skipped if it
\* does not, whatever the scan recorded.
C14_SkipFromFreshCheck ==
    [][ (InBatch /\ call.pc = "loop" /\ call' # call) =>
            call'.results.skipped =
                call.results.skipped
                    + (IF call.files_data[call.i + 1].dest \in files THEN 1 ELSE 0)
      ]_vars

\* The calls the callback can get for item k (1-based) of the list
SkipEntry(k) ==
    progress_entry(k, Len(call.files_data),
                   "Atlandi: " \o call.files_data[k].filename, "True")

InFlightEntry(k) ==
    progress_entry(k, Len(call.files_data),
                   "Donusturuluyor: " \o call.files_data[k].filename, "None")

DoneEntry(k) ==
    progress_entry(k, Len(call.files_data),
                   "Tamamlandi: " \o call.files_data[k].filename, "True")

FailedEntry(k) ==
    progress_entry(k, Len(call.files_data),
                   "Hata: " \o call.files_data[k].filename, "False")

\* The calls made for item k, in the order made
CallsFor(k) ==
    LET IsFor(c) == c.count = k IN SelectSeq(progress_calls, IsFor)

\* The calls come in the order of the list
CallsInListOrder ==
    \A a, b \in 1..Len(progress_calls) :
        a < b => progress_calls[a].count <= progress_calls[b].count

\* The calls of the items not yet finished: the in-flight call for the item
\* being converted, none for the items after it
UnfinishedCalls ==
    \A k \in (call.i + 1)..Len(call.files_data) :
        CallsFor(k) =
            IF k = call.i + 1 /\ call.pc = "convert"
            THEN << InFlightEntry(k) >>
            ELSE << >>

\* C15 as claimed (a callback that returns): the calls come in list order;
\* a finished item has got one skip call with True, or the in-flight call
\* with None followed by one terminal call, True on success and False on
\* failure; nothing else is called.
C15_ProgressCalls ==
    (InBatch /\ call.progress_callback = "returns") =>
        /\ CallsInListOrder
        /\ UnfinishedCalls
        /\ \A k \in 1..call.i :
               CallsFor(k) \in
                   { << SkipEntry(k) >>,
                     << InFlightEntry(k), DoneEntry(k) >>,
                     << InFlightEntry(k), FailedEntry(k) >> }

\* C15 as amended (a callback that returns): the calls come in list order;
\* a finished item has got one skip call with True, or the in-flight call
\* with None followed by one terminal call, True on success and False on
\* failure, or, when its destination folder could not be made, the terminal
\* call with False alone; nothing else is called.
C15_ProgressCallsOrFailedEarly ==
    (InBatch /\ call.progress_callback = "returns") =>
        /\ CallsInListOrder
        /\ UnfinishedCalls
        /\ \A k \in 1..call.i :
               CallsFor(k) \in
                   { << SkipEntry(k) >>,
                     << InFlightEntry(k), DoneEntry(k) >>,
                     << InFlightEntry(k), FailedEntry(k) >>,
                     << FailedEntry(k) >> }

\* Of two items the first failed before its in-flight call and the second
\* was converted
C15_Witness ==
    /\ InBatch
    /\ call.pc = "returned"
    /\ call.progress_callback = "returns"
    /\ Len(call.files_data) = 2
    /\ progress_calls = << FailedEntry(1), InFlightEntry(2), DoneEntry(2) >>

(***************************************************************************)
(* youtube_downloader: get_youtube_info and download_youtube_audio called  *)
(* directly, step by step                                                  *)
(***************************************************************************)
\* The urls fetched; their titles sanitize to the same file name
FetchUrls == { "https://youtu.be/dQw4w9WgXcQ", "youtube.com/embed/aaaaaaaaaaa" }

\* dest_folder
FetchFolder == "d"

\* tempfile.TemporaryDirectory(): the directory it makes
TempDir == "tmp"

\* The messages returned
NoAudioStreamMessage == "Ses akisi bulunamadi"
ErrorMessage == "Indirme hatasi: "
SuccessMessage == "Basariyla indirildi: "

\* A temporary directory never removed
tempdir_cleanup_skipped(dirs, dir) == dirs

\* TemporaryDirectory.__exit__: the with block is left, by its end or by an
\* exception
tempdir_cleanup(dirs, dir) == dirs \ { dir }

\* The test on the stream never true
stream_missing_never(audio_stream) == FALSE

\* if not audio_stream
stream_missing(audio_stream) == audio_stream = "None"

\* get_youtube_info(url); platform_ok tells whether the platform client
\* answers or raises
get_youtube_info(url, platform_ok) ==
    /\ CallOver
    /\ call' = [fn |-> "get_youtube_info", pc |-> "returned", url |-> url,
                result |->
                    IF platform_ok
                    THEN [success |-> TRUE, info |-> VideoTitle(url),
                          error |-> "None"]
                    ELSE [success |-> FALSE, info |-> "None",
                          error |-> "platform error"]]
    /\ progress_calls' = << >>
    /\ UNCHANGED << app_vars, batch_tab_vars, files, files_data, temp_dirs >>

\* download_youtube_audio(url, dest_folder, progress_callback) is called
fetch_call(url, callback) ==
    /\ CallOver
    /\ call' = [fn |-> "download_youtube_audio", pc |-> "begin",
                url |-> url, dest_folder |-> FetchFolder,
                progress_callback |-> callback,
                title |-> "", audio_stream |-> "unknown", temp_dir |-> "",
                temp_file |-> "", output_path |-> "",
                result |-> [success |-> FALSE, file_path |-> "", message |-> ""]]
    /\ progress_calls' = << >>
    /\ UNCHANGED << app_vars, batch_tab_vars, files, files_data, temp_dirs >>

InFetch == call.fn = "download_youtube_audio"

\* except Exception as e: the error is reported and returned; a callback
\* that raises there raises out of the function
fetch_except(error) ==
    /\ progress_calls' =
           progress(progress_calls, call.progress_callback, ErrorMessage \o error)
    /\ call' =
           IF call.progress_callback = "raises"
           THEN [call EXCEPT !.pc = "raised"]
           ELSE [call EXCEPT !.pc = "returned",
                             !.result = [success |-> FALSE, file_path |-> "",
                                         message |-> ErrorMessage \o error]]

\* The same, for an exception raised after a progress report was made
fetch_except_after(calls, error) ==
    /\ progress_calls' =
           progress(calls, call.progress_callback, ErrorMessage \o error)
    /\ call' =
           IF call.progress_callback = "raises"
           THEN [call EXCEPT !.pc = "raised"]
           ELSE [call EXCEPT !.pc = "returned",
                             !.result = [success |-> FALSE, file_path |-> "",
                                         message |-> ErrorMessage \o error]]

\* The first report, YouTube(url), the title and the second report
fetch_begin(platform_ok) ==
    /\ InFetch
    /\ call.pc = "begin"
    /\ LET callback == call.progress_callback
           first == progress(progress_calls, callback, "Video bilgileri aliniyor...")
           title == sanitize_filename(VideoTitle(call.url))
       IN  IF callback = "raises"
           THEN fetch_except_after(first, "callback")
           ELSE IF ~platform_ok
           THEN fetch_except_after(first, "platform")
           ELSE /\ progress_calls' =
                       progress(first, callback,
                                "Indiriliyor: " \o Truncate(title, 30) \o "...")
                /\ call' = [call EXCEPT !.pc = "select_stream", !.title = title]
    /\ UNCHANGED << app_vars, batch_tab_vars, files, files_data, temp_dirs >>

\* What yt.streams...first() can come to: it raises, there is no audio
\* stream, there is one
StreamOutcomes == { "Exception", "None", "stream" }

\* The audio stream is looked up; with a stream, os.makedirs and
\* TemporaryDirectory() follow
fetch_select_stream(outcome, makedirs_ok) ==
    /\ InFetch
    /\ call.pc = "select_stream"
    /\ IF outcome = "Exception"
       THEN /\ makedirs_ok
            /\ fetch_except("streams")
            /\ UNCHANGED temp_dirs
       ELSE IF stream_missing(outcome)
       THEN /\ makedirs_ok
            /\ call' = [call EXCEPT
                           !.pc = "returned",
                           !.audio_stream = outcome,
                           !.result = [success |-> FALSE, file_path |-> "",
                                       message |-> NoAudioStreamMessage]]
            /\ UNCHANGED << progress_calls, temp_dirs >>
       ELSE IF ~makedirs_ok
       THEN /\ fetch_except("makedirs")
            /\ UNCHANGED temp_dirs
       ELSE /\ call' = [call EXCEPT !.pc = "download",
                                    !.audio_stream = outcome,
                                    !.temp_dir = TempDir]
            /\ temp_dirs' = temp_dirs \cup { TempDir }
            /\ UNCHANGED progress_calls
    /\ UNCHANGED << app_vars, batch_tab_vars, files, files_data >>

\* The third report and audio_stream.download(output_path=temp_dir)
fetch_download(download_ok) ==
    /\ InFetch
    /\ call.pc = "download"
    /\ LET callback == call.progress_callback
           calls == progress(progress_calls, callback, "Ses dosyasi indiriliyor...")
       IN  IF callback = "raises" \/ ~download_ok \/ stream_missing(call.audio_stream)
           THEN /\ fetch_except_after(calls, "download")
                /\ temp_dirs' = tempdir_cleanup(temp_dirs, call.temp_dir)
           ELSE /\ progress_calls' = calls
                /\ call' = [call EXCEPT !.pc = "choose_name",
                                        !.temp_file = PathJoin(call.temp_dir, "audio")]
                /\ UNCHANGED temp_dirs
    /\ UNCHANGED << app_vars, batch_tab_vars, files, files_data >>

\* The fourth report and the choice of the output name
fetch_choose_name ==
    /\ InFetch
    /\ call.pc = "choose_name"
    /\ LET callback == call.progress_callback
           calls == progress(progress_calls, callback, "MP3'e donusturuluyor...")
       IN  IF callback = "raises"
           THEN /\ fetch_except_after(calls, "callback")
                /\ temp_dirs' = tempdir_cleanup(temp_dirs, call.temp_dir)
           ELSE /\ progress_calls' = calls
                /\ call' = [call EXCEPT
                               !.pc = "export",
                               !.output_path =
                                   output_path(call.dest_folder, call.title)]
                /\ UNCHANGED temp_dirs
    /\ UNCHANGED << app_vars, batch_tab_vars, files, files_data >>

\* What from_file and export can come to: the file is written, an exception
\* that leaves nothing at output_path (from_file raises, or export raises
\* before it opens the output), an exception after export opened output_path
\* for writing
ExportOutcomes == { "ok", "Exception", "Exception, output opened" }

\* AudioSegment.from_file(temp_file), audio.export(output_path) and the end
\* of the with block; nothing in the function removes output_path
fetch_export(outcome) ==
    /\ InFetch
    /\ call.pc = "export"
    /\ temp_dirs' = tempdir_cleanup(temp_dirs, call.temp_dir)
    /\ IF outcome = "ok"
       THEN /\ call.output_path \in files \/ Cardinality(files) < MaxFiles
            /\ files' = files \cup { call.output_path }
            /\ call' = [call EXCEPT !.pc = "finish"]
            /\ UNCHANGED progress_calls
       ELSE IF outcome = "Exception"
       THEN /\ fetch_except("export")
            /\ UNCHANGED files
       ELSE /\ call.output_path \in files \/ Cardinality(files) < MaxFiles
            /\ files' = files \cup { call.output_path }
            /\ fetch_except("export")
    /\ UNCHANGED << app_vars, batch_tab_vars, files_data >>

\* The last report and return True, output_path, message
fetch_finish ==
    /\ InFetch
    /\ call.pc = "finish"
    /\ LET callback == call.progress_callback
           calls == progress(progress_calls, callback, "Tamamlandi!")
       IN  IF callback = "raises"
           THEN fetch_except_after(calls, "callback")
           ELSE /\ progress_calls' = calls
                /\ call' = [call EXCEPT
                               !.pc = "returned",
                               !.result = [success |-> TRUE,
                                           file_path |-> call.output_path,
                                           message |->
                                               SuccessMessage \o
                                               SubSeq(call.output_path,
                                                      Len(call.dest_folder) + 2,
                                                      Len(call.output_path))]]
    /\ UNCHANGED << app_vars, batch_tab_vars, files, files_data, temp_dirs >>

\* The names download_youtube_audio can give its output in the folder
FetchPaths ==
    { PathJoin(FetchFolder, output_filename("a_b", n)) : n \in 0..(MaxFiles - 1) }

NextDownloader ==
    \/ \E url \in FetchUrls, platform_ok \in BOOLEAN :
           get_youtube_info(url, platform_ok)
    \/ \E url \in FetchUrls, callback \in CallbackKinds : fetch_call(url, callback)
    \/ \E platform_ok \in BOOLEAN : fetch_begin(platform_ok)
    \/ \E outcome \in StreamOutcomes, makedirs_ok \in BOOLEAN :
           fetch_select_stream(outcome, makedirs_ok)
    \/ \E download_ok \in BOOLEAN : fetch_download(download_ok)
    \/ fetch_choose_name
    \/ \E outcome \in ExportOutcomes : fetch_export(outcome)
    \/ fetch_finish
    \/ \E path \in FetchPaths : disk_create(path)
    \/ \E path \in FetchPaths : disk_delete(path)

SpecDownloader == Init /\ [][NextDownloader]_vars

\* Every function of the two modules, called one after the other
NextLibrary == NextBatch \/ NextDownloader

SpecLibrary == Init /\ [][NextLibrary]_vars

(***************************************************************************)
(* Properties of youtube_downloader                                        *)
(***************************************************************************)
FetchOver == InFetch /\ call.pc \in { "returned", "raised" }

\* C16: no exception propagates out of batch_convert_audio, get_youtube_info
\* or download_youtube_audio, whatever the collaborators and the progress
\* callback do: every call returns, get_youtube_info that fails with
\* (False, None, message) and download_youtube_audio that fails with
\* success False and a message.
C16_NoExceptionPropagates ==
    /\ call.pc # "raised"
    /\ (call.fn = "get_youtube_info" /\ ~call.result.success)
           => call.result.info = "None" /\ call.result.error # "None"
    /\ (InFetch /\ call.pc = "returned" /\ ~call.result.success)
           => call.result.file_path = "" /\ call.result.message # ""

\* C18: when the platform offers no audio stream, download_youtube_audio
\* returns success False with the no-audio-stream message, and it has
\* started no download, made no temporary directory and written no file.
C18_NoAudioStream ==
    /\ [](InFetch /\ call.audio_stream = "None"
            => /\ call.pc = "returned"
               /\ call.result = [success |-> FALSE, file_path |-> "",
                                 message |-> NoAudioStreamMessage]
               /\ call.temp_dir = ""
               /\ call.temp_file = ""
               /\ call.output_path = "")
    /\ [][InFetch' /\ call'.audio_stream = "None" /\ call # call'
            => /\ call.pc = "select_stream"
               /\ files' = files
               /\ temp_dirs' = temp_dirs
               /\ temp_dirs = {}]_vars

C18_Witness ==
    /\ InFetch
    /\ call.pc = "returned"
    /\ call.audio_stream = "None"
    /\ call.progress_callback = "returns"
    /\ Len(progress_calls) = 2
    /\ files = { "d/a_b.mp3" }

\* C19: whenever download_youtube_audio has returned or raised, and whenever
\* no call is running, the temporary directory it made no longer exists.
C19_TempDirGone ==
    (CallOver \/ FetchOver \/ (InFetch /\ call.pc = "finish")) => temp_dirs = {}

C19_Witness ==
    /\ FetchOver
    /\ call.temp_dir = TempDir
    /\ call.temp_file # ""
    /\ call.output_path # ""
    /\ ~call.result.success
    /\ temp_dirs = {}

\* The n-th name for a title: the title itself, then the numbered ones
NthName(title, n) ==
    IF n = 0
    THEN "d/" \o title \o ".mp3"
    ELSE "d/" \o title \o " (" \o ToString(n) \o ").mp3"

\* C20: the name download_youtube_audio chooses is that of no existing file,
\* and is the first free one of <title>.mp3, <title> (1).mp3, ...; a
\* successful export writes that file and no other, so a fetch ends with the
\* files it found and its own.
C20_NoOverwrite ==
    [][/\ (InFetch /\ call.pc = "choose_name" /\ call'.pc = "export")
           => /\ call'.output_path \notin files
              /\ \E n \in 0..MaxFiles :
                    /\ call'.output_path = NthName(call.title, n)
                    /\ \A m \in 0..(n - 1) : NthName(call.title, m) \in files
       /\ (InFetch /\ call.pc = "export" /\ call'.pc = "finish")
           => files' = files \cup { call.output_path }
       /\ (InFetch /\ call.pc = "finish" /\ call'.pc = "returned")
           => /\ call'.result.success
              /\ call'.result.file_path = call.output_path
              /\ files' = files]_vars

C20_Witness ==
    /\ InFetch
    /\ call.pc = "returned"
    /\ call.result.success
    /\ call.result.file_path = "d/a_b (1).mp3"
    /\ files = { "d/a_b.mp3", "d/a_b (1).mp3" }

\* C21: when the encode step of download_youtube_audio raises, the function
\* returns success False and the output path it chose, free until then, is
\* still free: no file, whole, partial or empty, is left there.
C21_NoFileLeftOnEncodeFailure ==
    [][(InFetch /\ call.pc = "export" /\ call'.pc # "finish" /\ call # call')
           => /\ call'.pc = "returned"
              /\ ~call'.result.success
              /\ call'.result.message # ""
              /\ call.output_path \notin files => call.output_path \notin files']_vars

(***************************************************************************)
(* The two sanitize_filename functions called directly                     *)
(***************************************************************************)
\* Longest word the file names given to the sanitizers are made of
MaxWord == 3

\* The characters of the words: a letter, a space, a dot, an invalid
\* character and a tab
SanitizeChars == { "a", " ", ".", "/", "\t" }

RECURSIVE Words(_)
Words(n) ==
    IF n = 0 THEN { "" }
    ELSE LET shorter == Words(n - 1)
         IN  shorter \cup { w \o c : w \in shorter, c \in SanitizeChars }

RECURSIVE Pad(_)
Pad(n) ==
    IF n = 0 THEN ""
    ELSE IF n = 1 THEN "a"
    ELSE Pad(n \div 2) \o Pad(n - (n \div 2))

\* The file names: a word, alone or after enough letters for the word to
\* lie across the length limit
SanitizeInputs ==
    { Pad(n) \o w : n \in { 0, MaxFilenameLen - 2, MaxFilenameLen - 1 },
                    w \in Words(MaxWord) }

SanitizeFunctions ==
    { "sanitize_filename", "ModernAudioConverter.sanitize_filename" }

InitSanitize ==
    /\ AppInit
    /\ files_data = << >>
    /\ progress_calls = << >>
    /\ temp_dirs = {}
    /\ \E fn \in SanitizeFunctions, filename \in SanitizeInputs :
           call = [fn |-> fn, pc |-> "called", filename |-> filename,
                   result |-> ""]

\* youtube_downloader.sanitize_filename(filename) returns
sanitize_filename_return ==
    /\ call.fn = "sanitize_filename"
    /\ call.pc = "called"
    /\ call' = [call EXCEPT !.pc = "returned",
                            !.result = sanitize_filename(call.filename)]
    /\ UNCHANGED << app_vars, batch_tab_vars, files, files_data, progress_calls, temp_dirs >>

\* ModernAudioConverter.sanitize_filename(filename) returns
app_sanitize_filename_return ==
    /\ call.fn = "ModernAudioConverter.sanitize_filename"
    /\ call.pc = "called"
    /\ call' = [call EXCEPT !.pc = "returned",
                            !.result = app_sanitize_filename(call.filename)]
    /\ UNCHANGED << app_vars, batch_tab_vars, files, files_data, progress_calls, temp_dirs >>

NextSanitize == sanitize_filename_return \/ app_sanitize_filename_return

SpecSanitize == InitSanitize /\ [][NextSanitize]_vars

\* C22: the result of youtube_downloader.sanitize_filename holds none of
\* the characters < > : " / \ | ? *, holds no two whitespace characters in a
\* row, neither begins nor ends with a space or a dot, and is at most 200
\* characters long.
C22_SanitizedName ==
    (call.fn = "sanitize_filename" /\ call.pc = "returned") =>
        LET name == call.result
        IN  /\ \A i \in 1..Len(name) :
                  SubSeq(name, i, i) \notin
                      { "<", ">", ":", "\"", "/", "\\", "|", "?", "*" }
            /\ \A i \in 1..(Len(name) - 1) :
                  ~ (/\ SubSeq(name, i, i) \in { " ", "\t", "\n", "\r" }
                     /\ SubSeq(name, i + 1, i + 1) \in { " ", "\t", "\n", "\r" })
            /\ name # "" =>
                  /\ SubSeq(name, 1, 1) \notin { " ", "." }
                  /\ SubSeq(name, Len(name), Len(name)) \notin { " ", "." }
            /\ Len(name) <= 200

\* C28: for every title the queue's sanitizer and the fetcher's sanitizer
\* give the same file name, so the path the queue computes at enqueue time
\* is the path a fetch without collision writes.
C28_SanitizersAgree ==
    /\ (call.fn = "ModernAudioConverter.sanitize_filename" /\ call.pc = "returned")
           => call.result = sanitize_filename(call.filename)
    /\ (call.fn = "sanitize_filename" /\ call.pc = "returned")
           => call.result = app_sanitize_filename(call.filename)

(***************************************************************************)
(* Properties of the scan and of a batch run over its list                 *)
(***************************************************************************)
InScan == call.fn = "find_audio_files"

\* The path is dir/stem.ext with ext one of the seven extensions in any case
AudioStems(path) ==
    { stem \in { SubSeq(path, j + 1, k) : j \in 0..Len(path), k \in 0..Len(path) } :
        \E j \in 0..Len(path), ext \in { ".m4a", ".mp4", ".wav", ".flac", ".aac",
                                         ".ogg", ".wma" } :
            /\ j = 0 \/ SubSeq(path, j, j) = "/"
            /\ \A k \in (j + 1)..Len(path) : SubSeq(path, k, k) # "/"
            /\ Len(path) - j > Len(ext)
            /\ stem = SubSeq(path, j + 1, Len(path) - Len(ext))
            /\ Lower(SubSeq(path, Len(path) - Len(ext) + 1, Len(path))) = ext }

\* The stems of every path a tree can hold
TreeStems == [path \in TreeFiles |-> AudioStems(path)]

\* C23: find_audio_files returns one item for each file of the tree, at any
\* depth, whose extension is one of .m4a .mp4 .wav .flac .aac .ogg .wma in
\* any case, and none for another file; the item's dest is
\* dest_folder/<stem>.mp3; a source folder that does not exist gives the
\* empty list.
C23_ScanExactlyAudioFiles ==
    InScan =>
        LET items == call.result
            audio == { path \in call.tree : TreeStems[path] # {} }
        IN  /\ call.pc = "returned"
            /\ Len(items) = Cardinality(audio)
            /\ \A path \in audio :
                  \E k \in 1..Len(items) :
                      /\ items[k].source = "in/" \o path
                      /\ \E stem \in TreeStems[path] :
                             items[k].dest = "out/" \o stem \o ".mp3"
                      /\ \A j \in 1..Len(items) :
                             items[j].source = items[k].source => j = k
            /\ ~call.source_exists => items = << >>

C23_Witness ==
    /\ InScan
    /\ call.source_exists
    /\ { "a.wav", "sub/a.FLAC", "notes.txt", "sub/deep/a.mp3" } \subseteq call.tree
    /\ \E k \in 1..Len(call.result) :
           /\ call.result[k].source = "in/sub/a.FLAC"
           /\ call.result[k].dest = "out/a.mp3"
    /\ \A k \in 1..Len(call.result) :
           call.result[k].source \notin { "in/notes.txt", "in/sub/deep/a.mp3" }

\* C30: within one batch run no destination is written for two items: when
\* the conversion of an item writes its destination, no earlier item of the
\* list that was converted in this run has the same destination.
C30_NoDestinationWrittenTwice ==
    [][(/\ InBatch
        /\ call.pc = "convert"
        /\ call.progress_callback = "returns"
        /\ call'.results.success = call.results.success + 1)
           => \A j \in 1..call.i :
                  (\E n \in 1..Len(progress_calls) : progress_calls[n] = DoneEntry(j))
                      => call.files_data[j].dest # call.files_data[call.i + 1].dest]_vars

(***************************************************************************)
(* The batch tab: scan_files, start_conversion, the convert_files worker   *)
(* and the handlers it posts                                               *)
(***************************************************************************)
\* The variables of the queue tab that the batch tab leaves alone
queue_vars ==
    << youtube_queue, youtube_tree, downloading, current_youtube_index,
       info_threads, fetch_threads, download_next_timers, queue_complete_calls >>

WarnNoFolders == "Lutfen kaynak ve hedef klasorlerini secin."
WarnPartly == "Kismen Basarili"

\* Status column of the file tree
StatusExists == "Zaten var"
StatusToConvert == "Donusturulecek"

\* The rows scan_files inserts
scan_rows(list) ==
    [k \in 1..Len(list) |->
        [filename |-> list[k].filename,
         status |-> IF list[k].exists THEN StatusExists ELSE StatusToConvert,
         progress |-> ""]]

\* scan_files, by the scan button; folders_chosen tells whether both folder
\* fields are filled
scan_files(folders_chosen, source_exists, present) ==
    /\ scan_btn = "normal"
    /\ IF ~folders_chosen
       THEN /\ last_warning' = WarnNoFolders
            /\ UNCHANGED << files_data, file_tree, convert_btn >>
       ELSE LET list == IF source_exists THEN scan_list(1, present, files)
                        ELSE << >>
            IN  /\ files_data' = list
                /\ file_tree' = scan_rows(list)
                /\ convert_btn' =
                       IF list = << >> THEN convert_btn
                       ELSE IF \E k \in 1..Len(list) : ~list[k].exists
                       THEN "normal"
                       ELSE "disabled"
                /\ UNCHANGED last_warning
    /\ UNCHANGED << queue_vars, after_queue, files, call, progress_calls,
                    temp_dirs, converting, scan_btn, convert_threads >>

\* start_conversion, by the convert button
start_conversion ==
    /\ convert_btn = "normal"
    /\ IF converting
       THEN UNCHANGED << converting, convert_btn, scan_btn, convert_threads >>
       ELSE /\ converting' = TRUE
            /\ convert_btn' = "disabled"
            /\ scan_btn' = "disabled"
            /\ convert_threads' =
                   convert_threads (+)
                       SetToBag({[i |-> 0,
                                  results |-> [success |-> 0, failed |-> 0,
                                               skipped |-> 0, errors |-> << >>]]})
    /\ UNCHANGED << queue_vars, after_queue, files, last_warning, lib_vars,
                    file_tree >>

\* progress_callback of convert_files: root.after(0,
\* self.update_conversion_progress, converted, total, filename, success);
\* what batch_convert_audio passes as filename is the label it made of it
posted_progress(entry) ==
    [handler |-> "update_conversion_progress", converted |-> entry.count,
     total |-> entry.total, filename |-> entry.label, success |-> entry.flag]

\* The worker in batch_convert_audio: the loop body for the next item.  The
\* item is skipped, converted or fails, and each report is posted.
convert_files_item(thread, outcome) ==
    /\ BagIn(thread, convert_threads)
    /\ thread.i < Len(files_data)
    /\ LET file_info == files_data[thread.i + 1]
           count == thread.i + 1
           total == Len(files_data)
           skipped == posted_progress(
                          progress_entry(count, total,
                                         "Atlandi: " \o file_info.filename, "True"))
           in_flight == posted_progress(
                            progress_entry(count, total,
                                           "Donusturuluyor: " \o file_info.filename,
                                           "None"))
           terminal(ok) == posted_progress(
                               terminal_entry(count, total, file_info.filename, ok))
           step(results) == [thread EXCEPT !.i = count, !.results = results]
           next(results) ==
               (convert_threads (-) SetToBag({thread}))
                   (+) SetToBag({step(results)})
       IN  IF skip_test(file_info)
           THEN /\ outcome = "ok"
                /\ convert_threads' =
                       next([thread.results EXCEPT !.skipped = @ + 1])
                /\ after_queue' = Append(after_queue, skipped)
                /\ UNCHANGED files
           ELSE IF outcome = "ok"
           THEN /\ file_info.dest \in files \/ Cardinality(files) < MaxFiles
                /\ files' = files \cup { file_info.dest }
                /\ convert_threads' =
                       next([thread.results EXCEPT !.success = @ + 1])
                /\ after_queue' = after_queue \o << in_flight, terminal(TRUE) >>
           ELSE /\ convert_threads' =
                       next(record_failure(thread.results,
                                           "Hata (" \o file_info.filename \o ")"))
                /\ after_queue' = after_queue \o << in_flight, terminal(FALSE) >>
                /\ UNCHANGED files
    /\ UNCHANGED << queue_vars, last_warning, lib_vars, converting, convert_btn,
                    scan_btn, file_tree >>

\* The worker ends: batch_convert_audio has returned its results and
\* conversion_complete is posted, or it has raised and conversion_error is
\* posted
convert_files(thread, raised) ==
    /\ BagIn(thread, convert_threads)
    /\ raised \/ thread.i = Len(files_data)
    /\ convert_threads' = convert_threads (-) SetToBag({thread})
    /\ after_queue' =
           Append(after_queue,
                  IF raised
                  THEN [handler |-> "conversion_error"]
                  ELSE [handler |-> "conversion_complete",
                        results |-> thread.results])
    /\ UNCHANGED << queue_vars, files, last_warning, lib_vars, converting,
                    convert_btn, scan_btn, file_tree >>

\* The first row of the file tree whose name column is the text given
row_of(filename) ==
    IF \E k \in 1..Len(file_tree) : file_tree[k].filename = filename
    THEN CHOOSE k \in 1..Len(file_tree) :
             /\ file_tree[k].filename = filename
             /\ \A j \in 1..(k - 1) : file_tree[j].filename # filename
    ELSE 0

\* update_conversion_progress, run by the main loop
update_conversion_progress ==
    /\ after_queue # << >>
    /\ Head(after_queue).handler = "update_conversion_progress"
    /\ after_queue' = Tail(after_queue)
    /\ LET cb == Head(after_queue)
           row == row_of(cb.filename)
       IN  file_tree' =
               IF row = 0 THEN file_tree
               ELSE [file_tree EXCEPT
                        ![row].status = IF cb.success = "True"
                                        THEN StatusCompleted ELSE StatusFailed,
                        ![row].progress = << cb.converted, cb.total >>]
    /\ UNCHANGED << queue_vars, files, last_warning, lib_vars, converting,
                    convert_btn, scan_btn, convert_threads >>

\* The handler leaving the flag set
conversion_error_keeping_flag ==
    /\ after_queue # << >>
    /\ Head(after_queue).handler = "conversion_error"
    /\ after_queue' = Tail(after_queue)
    /\ convert_btn' = "normal"
    /\ scan_btn' = "normal"
    /\ UNCHANGED << queue_vars, files, last_warning, lib_vars, converting,
                    convert_threads, file_tree >>

\* conversion_complete, run by the main loop
conversion_complete ==
    /\ after_queue # << >>
    /\ Head(after_queue).handler = "conversion_complete"
    /\ after_queue' = Tail(after_queue)
    /\ converting' = FALSE
    /\ convert_btn' = "normal"
    /\ scan_btn' = "normal"
    /\ last_warning' =
           IF Head(after_queue).results.failed = 0 THEN last_warning
           ELSE WarnPartly
    /\ UNCHANGED << queue_vars, files, lib_vars, convert_threads, file_tree >>

\* conversion_error, run by the main loop
conversion_error ==
    /\ after_queue # << >>
    /\ Head(after_queue).handler = "conversion_error"
    /\ after_queue' = Tail(after_queue)
    /\ converting' = FALSE
    /\ convert_btn' = "normal"
    /\ scan_btn' = "normal"
    /\ UNCHANGED << queue_vars, files, last_warning, lib_vars, convert_threads,
                    file_tree >>

NextConversion ==
    \/ \E folders_chosen, source_exists \in BOOLEAN, present \in SUBSET TreeFiles :
           scan_files(folders_chosen, source_exists, present)
    \/ start_conversion
    \/ \E thread \in BagToSet(convert_threads), outcome \in { "ok", "Exception" } :
           convert_files_item(thread, outcome)
    \/ \E thread \in BagToSet(convert_threads), raised \in BOOLEAN :
           convert_files(thread, raised)
    \/ update_conversion_progress
    \/ conversion_complete
    \/ conversion_error
    \/ \E path \in ScanPaths : disk_create(path)
    \/ \E path \in ScanPaths : disk_delete(path)

SpecConversion == Init /\ [][NextConversion]_vars

(***************************************************************************)
(* Properties of the batch tab                                             *)
(***************************************************************************)
\* Workers running, and workers that ended whose handler is still posted
Workers == BagCardinality(convert_threads)

PostedEnds == PostedCount("conversion_complete") + PostedCount("conversion_error")

\* C24: at most one convert_files worker exists; converting is true from
\* start_conversion until the handler of the worker's end has run, and the
\* convert button is disabled all that time; once the worker's end is
\* handled, by conversion_complete or by conversion_error, converting is
\* false and start_conversion starts a worker again.
C24_OneConversionWorker ==
    /\ [](/\ Workers + PostedEnds <= 1
          /\ converting <=> (Workers + PostedEnds = 1)
          /\ converting => convert_btn = "disabled" /\ scan_btn = "disabled"
          /\ ~converting /\ convert_btn = "normal" =>
                 ENABLED (start_conversion /\ Workers' = 1))
    /\ [][PostedEnds' < PostedEnds =>
              ~converting' /\ convert_btn' = "normal" /\ scan_btn' = "normal"]_vars
    /\ [][Workers' > Workers => ~converting /\ Workers = 0 /\ PostedEnds = 0]_vars

\* A conversion running after an earlier one ended with a failure reported
C24_Witness ==
    /\ converting
    /\ Workers = 1
    /\ PostedEnds = 0
    /\ last_warning = WarnPartly
    /\ \E thread \in BagToSet(convert_threads) : thread.i = 0

(***************************************************************************)
(* The application with both tabs.  One tab is used at a time: the queue   *)
(* tab while the batch tab is as it was at start, the batch tab while the  *)
(* queue is empty and at rest.                                             *)
(***************************************************************************)
QueueIdle ==
    /\ youtube_queue = << >>
    /\ ~downloading
    /\ info_threads = EmptyBag
    /\ fetch_threads = EmptyBag
    /\ download_next_timers = 0
    /\ \A k \in 1..Len(after_queue) :
           after_queue[k].handler \in
               { "update_conversion_progress", "conversion_complete",
                 "conversion_error" }

BatchIdle ==
    /\ files_data = << >>
    /\ file_tree = << >>
    /\ ~converting
    /\ convert_btn = "disabled"
    /\ convert_threads = EmptyBag
    /\ \A k \in 1..Len(after_queue) :
           after_queue[k].handler \notin
               { "update_conversion_progress", "conversion_complete",
                 "conversion_error" }

NextApp ==
    \/ BatchIdle /\ Next
    \/ QueueIdle /\ NextConversion

SpecApp == Init /\ [][NextApp]_vars

\* A step of a background thread: a thread of one of the three kinds ends or
\* moves on (a handler only ever adds a thread)
WorkerStep ==
    \/ info_threads' # info_threads
          /\ BagCardinality(info_threads') <= BagCardinality(info_threads)
    \/ fetch_threads' # fetch_threads
          /\ BagCardinality(fetch_threads') <= BagCardinality(fetch_threads)
    \/ convert_threads' # convert_threads
          /\ BagCardinality(convert_threads') <= BagCardinality(convert_threads)

\* What the main loop's handlers own
UIState ==
    << youtube_queue, youtube_tree, current_youtube_index, downloading,
       queue_complete_calls, last_warning, converting, convert_btn, scan_btn,
       files_data, file_tree >>

\* C25: a step of a worker thread (convert_files, fetch_and_add_video,
\* download_youtube_queue_item) writes none of the queue, the rows' status
\* and progress, the current index, the converting and downloading flags:
\* it posts a callback for the main loop, and every change of that state is
\* made by a step of the main loop.
C25_WorkersOnlyPost ==
    [][WorkerStep =>
           /\ UNCHANGED UIState
           /\ Len(after_queue') > Len(after_queue)
           /\ SubSeq(after_queue', 1, Len(after_queue)) = after_queue]_vars

C25_Witness ==
    /\ PostedCount("youtube_queue_item_complete") = 1
    /\ downloading
    /\ current_youtube_index = 1
    /\ Len(youtube_tree) = 2
    /\ youtube_tree[2].status = StatusDownloading
    /\ files # {}

(***************************************************************************)
(* Properties of the queue run, continued                                  *)
(***************************************************************************)
\* The posted completions of fetches
PostedCompletions ==
    { k \in 1..Len(after_queue) :
        after_queue[k].handler = "youtube_queue_item_complete" }

\* C27: while downloading is set, from the start of a run to
\* youtube_queue_complete, no item is removed and the queue is not cleared:
\* the queue only grows at its end.  So the index a fetch thread or its
\* posted completion carries is that of the item the fetch was started
\* for, which is the current one and is marked Downloading, and the
\* completion handler writes the outcome to that row and to no other.
C27_QueueStableDuringRun ==
    /\ [](\A thread \in BagToSet(fetch_threads) :
              /\ downloading
              /\ thread.index = current_youtube_index
              /\ thread.index < Len(youtube_queue)
              /\ youtube_queue[thread.index + 1].url = thread.url
              /\ youtube_queue[thread.index + 1].dest = thread.dest
              /\ youtube_tree[thread.index + 1].status = StatusDownloading)
    /\ [](\A k \in PostedCompletions :
              /\ downloading
              /\ after_queue[k].index = current_youtube_index
              /\ after_queue[k].index < Len(youtube_tree)
              /\ youtube_tree[after_queue[k].index + 1].status = StatusDownloading)
    /\ [][downloading =>
              /\ Len(youtube_queue') >= Len(youtube_queue)
              /\ SubSeq(youtube_queue', 1, Len(youtube_queue)) = youtube_queue
              /\ Len(youtube_tree') = Len(youtube_queue')]_vars
    /\ [][Cardinality(PostedCompletions') < Cardinality(PostedCompletions) =>
              LET cb == Head(after_queue)
              IN  /\ cb.handler = "youtube_queue_item_complete"
                  /\ youtube_tree'[cb.index + 1].status =
                         IF cb.success THEN StatusCompleted ELSE StatusFailed
                  /\ \A i \in 1..Len(youtube_tree) :
                         i # cb.index + 1 => youtube_tree'[i] = youtube_tree[i]]_vars

C27_Witness ==
    /\ downloading
    /\ Len(youtube_queue) = 2
    /\ current_youtube_index = 1
    /\ youtube_tree[1].status = StatusFailed
    /\ \E k \in PostedCompletions :
           after_queue[k].index = 1 /\ after_queue[k].success

(***************************************************************************)
(* Scheduling.  Tk's main loop runs every posted callback and fires every  *)
(* armed timer; a worker thread that is not blocked runs to its end.       *)
(***************************************************************************)
MainLoopFair ==
    /\ WF_vars(download_next_timer)
    /\ WF_vars(youtube_queue_item_complete)
    /\ WF_vars(update_youtube_queue_progress)
    /\ WF_vars(\E response \in BOOLEAN : add_video_to_queue(response))

WorkersFair ==
    /\ WF_vars(\E thread \in BagToSet(info_threads), success \in BOOLEAN :
                   fetch_and_add_video(thread, success))
    /\ WF_vars(\E thread \in BagToSet(fetch_threads) : fetch_report_progress(thread))
    /\ WF_vars(\E thread \in BagToSet(fetch_threads), success \in BOOLEAN :
                   download_youtube_queue_item(thread, success))

\* Every lookup and every fetch returns
SpecFair == Spec /\ MainLoopFair /\ WorkersFair

\* A network call of download_youtube_audio (YouTube(url), the stream query,
\* audio_stream.download: none is given a timeout) never returns: the
\* worker stays in it
fetch_stalls(thread) ==
    /\ BagIn(thread, fetch_threads)
    /\ thread.pc \in { "start", "working" }
    /\ fetch_threads' =
           (fetch_threads (-) SetToBag({thread}))
               (+) SetToBag({[thread EXCEPT !.pc = "stalled"]})
    /\ UNCHANGED << youtube_queue, youtube_tree, downloading,
                    current_youtube_index, info_threads, after_queue,
                    download_next_timers, files, queue_complete_calls,
                    last_warning >>
    /\ UNCHANGED << lib_vars, batch_tab_vars >>

NextStall ==
    \/ Next
    \/ \E thread \in BagToSet(fetch_threads) : fetch_stalls(thread)

\* A fetch can stall; whatever is not stalled is scheduled
SpecStall == Init /\ [][NextStall]_vars /\ MainLoopFair /\ WorkersFair

\* The fetch of item i (1-based) is stalled
Stalled(i) ==
    \E thread \in BagToSet(fetch_threads) :
        thread.pc = "stalled" /\ thread.index = i - 1

\* C26: a fetch that does not finish in time ends as a failure: the item is
\* marked Failed and the run goes on to the next item.
C26_StalledFetchFails ==
    \A i \in 1..MaxQueue :
        Stalled(i) ~> (/\ ~Stalled(i)
                       /\ i <= Len(youtube_tree)
                       /\ youtube_tree[i].status = StatusFailed
                       /\ (~downloading \/ current_youtube_index >= i))

\* C29: with every posted callback run, every timer fired and every fetch
\* returning, a run that started comes to youtube_queue_complete: downloading
\* is false again, the index is 0 and the run, remove and clear buttons are
\* available again; during the run the index never decreases and never
\* exceeds the length of the queue.
C29_RunTerminates ==
    /\ downloading ~> (/\ ~downloading
                       /\ current_youtube_index = 0
                       /\ remove_selected_btn
                       /\ has_items => clear_queue_btn /\ download_queue_btn)
    /\ [](current_youtube_index <= Len(youtube_queue))
    /\ [][downloading /\ downloading' =>
              current_youtube_index' >= current_youtube_index]_vars
    /\ [][downloading /\ ~downloading' =>
              /\ current_youtube_index = Len(youtube_queue)
              /\ Len(queue_complete_calls') = Len(queue_complete_calls) + 1]_vars

C29_Witness ==
    /\ ~downloading
    /\ current_youtube_index = 0
    /\ Len(queue_complete_calls) = 1
    /\ Len(youtube_tree) = 2
    /\ youtube_tree[1].status = StatusFailed
    /\ youtube_tree[2].status = StatusCompleted
    /\ after_queue = << >>
    /\ download_next_timers = 0

====
